---- MODULE Spec2Model ----
(***************************************************************************)
(* Usage analytics of claudit: the log reader (services/usage.rs), the     *)
(* aggregation pass and the stats cache (services/analytics.rs).           *)
(*                                                                         *)
(* Instants (chrono DateTime<Utc>) are integers: milliseconds since the    *)
(* model epoch, 2024-02-28T00:00:00Z.  Option<T> is a sequence of length   *)
(* at most one: None is <<>>, Some(x) is <<x>>.  Money (f64 dollars) is    *)
(* kept exact, as an integer count of CostUnit = 0.005 dollars per         *)
(* million tokens, i.e. dollars = units * 5 / 10^9.                        *)
(***************************************************************************)
EXTENDS Integers, Sequences, FiniteSets, TLC

VARIABLES
    files,          \* the log tree: the *.jsonl files under ~/.claude/projects
    registry,       \* UsageReader.project_path_map (encoded folder -> path)
    now,            \* the wall clock, Utc::now()
    appended,       \* how many lines the assistant has appended to the logs
    pc,             \* per caller: its position in get_stats / refresh_stats
    op,             \* per caller: the public method it called
    last,           \* per caller: needs_refresh's local `last`
    checked_at,     \* per caller: the Utc::now() needs_refresh compared with
    entries,        \* per caller: refresh_stats' local `entries`
    stats,          \* per caller: refresh_stats' local `stats`
    copy,           \* per caller: the clone of the cache it is making
    call,           \* per caller: its call's number, start, and what it met
    ret,            \* the outcome of the call that returned last
    cached_stats,   \* AnalyticsService.cached_stats (the value under the lock)
    cache_lock,     \* the RwLock of cached_stats: readers, writer, poisoned
    last_refresh,   \* AnalyticsService.last_refresh (the value under the lock)
    refresh_poisoned, \* the poison flag of last_refresh's RwLock
    calls,          \* how many calls of the service have been made
    ts1,            \* an instant given to get_session_block_key
    ts2,            \* another instant given to get_session_block_key
    key1,           \* the key of ts1, once computed
    key2,           \* the key of ts2, once computed
    order,          \* a model name and token counts to be priced
    priced,         \* the schedules and costs of `order`, once computed
    max_age_days,   \* the `days` argument of read_entries in a reader run
    chart,          \* the ChartData of a reader run, once computed
    raw_line,       \* a log line given to parse_line
    parse_result,   \* what parse_line made of raw_line, once computed
    max_chars,      \* the argument of a get_latest_response call
    latest_response \* how that call ended, once it has

\* the log tree and the clock
env == <<files, registry, now, appended>>
\* the locals of the callers
locals == <<last, checked_at, entries, stats, copy>>
\* the fields of AnalyticsService
shared == <<cached_stats, cache_lock, last_refresh, refresh_poisoned>>
\* the inputs and results of the runs of the pure functions
probe == <<ts1, ts2, key1, key2, order, priced, max_age_days, chart,
          raw_line, parse_result, max_chars, latest_response>>

vars == <<env, pc, op, locals, call, ret, shared, calls, probe>>

----------------------------------------------------------------------------
(* Bounds of the model *)

\* most lines in the log tree of an aggregation run (over all files)
MaxLines == 3
\* most clock ticks (of TickMs each) the cache model lets pass
MaxTicks == 2
\* most lines appended to the logs while the cache model runs
MaxAppends == 1
\* most calls of get_stats and refresh_stats the cache model follows
MaxCalls == 3
\* last day (counted from the model epoch) of the instants given to
\* get_session_block_key
MaxDay == 2

----------------------------------------------------------------------------
(* Time: chrono *)

None == <<>>
Some(x) == <<x>>

MsPerSecond == 10 * 100
MsPerMinute == 60 * MsPerSecond
MsPerHour == 60 * MsPerMinute
MsPerDay == 24 * MsPerHour

\* days from 1970-01-01 to the model epoch 2024-02-28 (2024-01-01 is 19723)
EpochDays == 19723 + 31 + 27

\* chrono::Duration::seconds(30), the staleness threshold of needs_refresh
StaleSeconds == 30
\* chrono::Duration::minutes(30), the burn window of calculate_stats
BurnMinutes == 30
\* the session block length in hours: timestamp.hour() / 5
BlockHours == 5

\* a point in time as (day number, millisecond of day)
DayOf(t) == t \div MsPerDay
MsOfDay(t) == t % MsPerDay

\* Timelike::hour()
Hour(t) == MsOfDay(t) \div MsPerHour

\* Datelike year/month/day of a day number counted from 1970-01-01
\* (proleptic Gregorian calendar)
Civil(days) ==
    LET z == days + 719468
        era == z \div 146097
        doe == z - era * 146097
        yoe == (doe - doe \div 1460 + doe \div 36524 - doe \div 146096) \div 365
        doy == doe - (365 * yoe + yoe \div 4 - yoe \div 100)
        mp == (5 * doy + 2) \div 153
        d == doy - (153 * mp + 2) \div 5 + 1
        m == IF mp < 10 THEN mp + 3 ELSE mp - 9
        y == yoe + era * 400 + (IF m <= 2 THEN 1 ELSE 0)
    IN  [year |-> y, month |-> m, day |-> d]

Year(t) == Civil(EpochDays + DayOf(t)).year
Month(t) == Civil(EpochDays + DayOf(t)).month
Day(t) == Civil(EpochDays + DayOf(t)).day

\* format!("{:02}", n) for the non-negative n the calendar yields
Pad2(n) == IF n < 10 THEN "0" \o ToString(n) ELSE ToString(n)

\* Duration::num_minutes(): whole minutes, truncated toward zero
NumMinutes(d) == IF d >= 0 THEN d \div MsPerMinute ELSE -((-d) \div MsPerMinute)

Max(a, b) == IF a >= b THEN a ELSE b

\* now.date_naive().and_hms_opt(0, 0, 0).unwrap().and_utc()
TodayStart(t) == DayOf(t) * MsPerDay

----------------------------------------------------------------------------
(* analytics.rs: cost and session block *)

\* mutant: the block index left out of the key
get_session_block_key_day_only(timestamp) ==
    ToString(Year(timestamp)) \o "-" \o Pad2(Month(timestamp)) \o "-"
        \o Pad2(Day(timestamp))

get_session_block_key(timestamp) ==
    LET block == Hour(timestamp) \div BlockHours
    IN  ToString(Year(timestamp)) \o "-" \o Pad2(Month(timestamp)) \o "-"
            \o Pad2(Day(timestamp)) \o "-" \o ToString(block)

\* the characters of the strings of the model: model names as the logs
\* spell them, the patterns the price tables look for, project paths and
\* the names of their log folders
Chars(s) ==
    CASE s = "claude-opus-4-5-20251101" ->
             <<"c", "l", "a", "u", "d", "e", "-", "o", "p", "u", "s", "-",
               "4", "-", "5", "-", "2", "0", "2", "5", "1", "1", "0", "1">>
      [] s = "claude-opus-4.5" ->
             <<"c", "l", "a", "u", "d", "e", "-", "o", "p", "u", "s", "-",
               "4", ".", "5">>
      [] s = "claude-opus-4-20250514" ->
             <<"c", "l", "a", "u", "d", "e", "-", "o", "p", "u", "s", "-",
               "4", "-", "2", "0", "2", "5", "0", "5", "1", "4">>
      [] s = "claude-sonnet-4" ->
             <<"c", "l", "a", "u", "d", "e", "-", "s", "o", "n", "n", "e",
               "t", "-", "4">>
      [] s = "Claude-Sonnet-4" ->
             <<"C", "l", "a", "u", "d", "e", "-", "S", "o", "n", "n", "e",
               "t", "-", "4">>
      [] s = "claude-haiku-3-20240307" ->
             <<"c", "l", "a", "u", "d", "e", "-", "h", "a", "i", "k", "u",
               "-", "3", "-", "2", "0", "2", "4", "0", "3", "0", "7">>
      [] s = "claude-haiku-4-5-20251001" ->
             <<"c", "l", "a", "u", "d", "e", "-", "h", "a", "i", "k", "u",
               "-", "4", "-", "5", "-", "2", "0", "2", "5", "1", "0", "0",
               "1">>
      [] s = "CLAUDE-HAIKU-4.5" ->
             <<"C", "L", "A", "U", "D", "E", "-", "H", "A", "I", "K", "U",
               "-", "4", ".", "5">>
      [] s = "claude-haiku-3.5" ->
             <<"c", "l", "a", "u", "d", "e", "-", "h", "a", "i", "k", "u",
               "-", "3", ".", "5">>
      [] s = "claude-3-5-haiku-20241022" ->
             <<"c", "l", "a", "u", "d", "e", "-", "3", "-", "5", "-", "h",
               "a", "i", "k", "u", "-", "2", "0", "2", "4", "1", "0", "2",
               "2">>
      [] s = "gpt-4o" -> <<"g", "p", "t", "-", "4", "o">>
      [] s = "" -> <<>>
      [] s = "opus-4-5" -> <<"o", "p", "u", "s", "-", "4", "-", "5">>
      [] s = "opus-4.5" -> <<"o", "p", "u", "s", "-", "4", ".", "5">>
      [] s = "opus" -> <<"o", "p", "u", "s">>
      [] s = "haiku-4-5" -> <<"h", "a", "i", "k", "u", "-", "4", "-", "5">>
      [] s = "haiku-4.5" -> <<"h", "a", "i", "k", "u", "-", "4", ".", "5">>
      [] s = "haiku-3-5" -> <<"h", "a", "i", "k", "u", "-", "3", "-", "5">>
      [] s = "haiku-3.5" -> <<"h", "a", "i", "k", "u", "-", "3", ".", "5">>
      [] s = "haiku" -> <<"h", "a", "i", "k", "u">>
      [] s = "sonnet" -> <<"s", "o", "n", "n", "e", "t">>
      [] s = "/home/u/app" ->
             <<"/", "h", "o", "m", "e", "/", "u", "/", "a", "p", "p">>
      [] s = "/home/u/my-app" ->
             <<"/", "h", "o", "m", "e", "/", "u", "/", "m", "y", "-", "a",
               "p", "p">>
      [] s = "/home/u/my/app" ->
             <<"/", "h", "o", "m", "e", "/", "u", "/", "m", "y", "/", "a",
               "p", "p">>
      [] s = "/tmp/x" -> <<"/", "t", "m", "p", "/", "x">>
      [] s = "-home-u-app" ->
             <<"-", "h", "o", "m", "e", "-", "u", "-", "a", "p", "p">>
      [] s = "-home-u-my-app" ->
             <<"-", "h", "o", "m", "e", "-", "u", "-", "m", "y", "-", "a",
               "p", "p">>
      [] s = "-tmp-x" -> <<"-", "t", "m", "p", "-", "x">>

\* char::to_lowercase over the letters
Upper == <<"A", "B", "C", "D", "E", "F", "G", "H", "I", "J", "K", "L", "M",
           "N", "O", "P", "Q", "R", "S", "T", "U", "V", "W", "X", "Y", "Z">>
Lower == <<"a", "b", "c", "d", "e", "f", "g", "h", "i", "j", "k", "l", "m",
           "n", "o", "p", "q", "r", "s", "t", "u", "v", "w", "x", "y", "z">>

\* str::to_lowercase
to_lowercase(cs) ==
    [i \in 1..Len(cs) |->
        IF \E k \in 1..Len(Upper) : Upper[k] = cs[i]
        THEN Lower[CHOOSE k \in 1..Len(Upper) : Upper[k] = cs[i]]
        ELSE cs[i]]

\* str::contains: pat occurs in cs as a substring
contains(cs, pat) ==
    \E i \in 1..(Len(cs) - Len(pat) + 1) : SubSeq(cs, i, i + Len(pat) - 1) = pat

\* model.to_lowercase().contains(family)
Contains(model, family) == contains(to_lowercase(Chars(model)), Chars(family))

\* TokenCosts in CostUnit (0.005 dollars) per million tokens
TokenCosts(input, output, cache_read, cache_write) ==
    [input |-> input, output |-> output,
     cache_read |-> cache_read, cache_write |-> cache_write]

\* analytics.rs get_model_costs
get_model_costs(model) ==
    IF Contains(model, "opus") THEN TokenCosts(3000, 15000, 300, 3750)
    ELSE IF Contains(model, "sonnet") THEN TokenCosts(600, 3000, 60, 750)
    ELSE IF Contains(model, "haiku") THEN TokenCosts(50, 250, 5, 60)
    ELSE TokenCosts(600, 3000, 60, 750)

\* let per_million = 1_000_000.0
PerMillion == 1000000

\* An f64 amount of money, kept exact: `mega` whole CostUnits and `units`
\* millionths of a CostUnit, units < PerMillion.  18.0 dollars is
\* [mega |-> 3600, units |-> 0].
NoCost == [mega |-> 0, units |-> 0]

\* (tokens as f64 / per_million) * rate
BucketCost(tokens, rate) ==
    LET part == (tokens % PerMillion) * rate
    IN  [mega |-> (tokens \div PerMillion) * rate + part \div PerMillion,
         units |-> part % PerMillion]

\* a + b over two amounts
AddCost(a, b) ==
    [mega |-> a.mega + b.mega + (a.units + b.units) \div PerMillion,
     units |-> (a.units + b.units) % PerMillion]

\* an amount as a number of millionths of a CostUnit
Units(a) == a.mega * PerMillion + a.units

\* analytics.rs calculate_entry_cost
calculate_entry_cost(entry) ==
    LET costs == get_model_costs(entry.model)
        input_cost == BucketCost(entry.input_tokens, costs.input)
        output_cost == BucketCost(entry.output_tokens, costs.output)
        cache_read_cost == BucketCost(entry.cache_read_tokens, costs.cache_read)
        cache_write_cost ==
            BucketCost(entry.cache_creation_tokens, costs.cache_write)
    IN  AddCost(AddCost(AddCost(input_cost, output_cost), cache_read_cost),
                cache_write_cost)

\* mutant: the generic family names are looked for first
pricing_get_model_costs_generic_first(model) ==
    IF Contains(model, "opus") THEN TokenCosts(3000, 15000, 300, 3750)
    ELSE IF Contains(model, "haiku") THEN TokenCosts(50, 250, 6, 60)
    ELSE IF Contains(model, "opus-4-5") \/ Contains(model, "opus-4.5")
    THEN TokenCosts(1000, 5000, 100, 1250)
    ELSE IF Contains(model, "haiku-4-5") \/ Contains(model, "haiku-4.5")
    THEN TokenCosts(200, 1000, 20, 250)
    ELSE IF Contains(model, "haiku-3-5") \/ Contains(model, "haiku-3.5")
    THEN TokenCosts(160, 800, 16, 200)
    ELSE TokenCosts(600, 3000, 60, 750)

\* pricing.rs get_model_costs
pricing_get_model_costs(model) ==
    IF Contains(model, "opus-4-5") \/ Contains(model, "opus-4.5")
    THEN TokenCosts(1000, 5000, 100, 1250)
    ELSE IF Contains(model, "opus") THEN TokenCosts(3000, 15000, 300, 3750)
    ELSE IF Contains(model, "haiku-4-5") \/ Contains(model, "haiku-4.5")
    THEN TokenCosts(200, 1000, 20, 250)
    ELSE IF Contains(model, "haiku-3-5") \/ Contains(model, "haiku-3.5")
    THEN TokenCosts(160, 800, 16, 200)
    ELSE IF Contains(model, "haiku") THEN TokenCosts(50, 250, 6, 60)
    ELSE TokenCosts(600, 3000, 60, 750)

\* mutant: the two cache buckets priced at each other's rate
calculate_cost_cache_rates_swapped(model, input_tokens, output_tokens, cache_creation_tokens, cache_read_tokens) ==
    AddCost(AddCost(AddCost(
        BucketCost(input_tokens, pricing_get_model_costs(model).input),
        BucketCost(output_tokens, pricing_get_model_costs(model).output)),
        BucketCost(cache_read_tokens, pricing_get_model_costs(model).cache_write)),
        BucketCost(cache_creation_tokens,
                   pricing_get_model_costs(model).cache_read))

\* pricing.rs calculate_cost
calculate_cost(model, input_tokens, output_tokens, cache_creation_tokens, cache_read_tokens) ==
    LET costs == pricing_get_model_costs(model)
        input_cost == BucketCost(input_tokens, costs.input)
        output_cost == BucketCost(output_tokens, costs.output)
        cache_read_cost == BucketCost(cache_read_tokens, costs.cache_read)
        cache_write_cost == BucketCost(cache_creation_tokens, costs.cache_write)
    IN  AddCost(AddCost(AddCost(input_cost, output_cost), cache_read_cost),
                cache_write_cost)

\* UsageEntry::total_tokens
total_tokens(entry) == entry.input_tokens + entry.output_tokens

----------------------------------------------------------------------------
(* usage.rs: the log tree, parse_line and read_entries *)

\* A log file: its parent folder, its modification time, whether File::open
\* succeeds, and its lines.  A line is what BufReader::lines and serde_json
\* make of it:
\*   io_ok     the line could be read (the read succeeded, valid UTF-8)
\*   advances  the reader is past the line after the attempt: always so
\*             after a line read or found not to be UTF-8, not so when the
\*             read itself fails and fails again at the next attempt
\*   blank     line.trim().is_empty()
\*   json      what serde_json::from_str::<RawLogEntry> makes of the text:
\*             "malformed" (not JSON), "mistyped" (JSON that is not a
\*             RawLogEntry: a field of the wrong type), "entry"
\*   raw       the RawLogEntry then obtained
\* A timestamp string is [rfc3339 |-> whether parse_from_rfc3339 accepts it,
\* wall |-> the date and time it spells, offset |-> its offset from UTC].

\* DateTime::parse_from_rfc3339(ts).ok().map(|dt| dt.with_timezone(&Utc))
parse_from_rfc3339(ts) == IF ts.rfc3339 THEN Some(ts.wall - ts.offset) ELSE None

\* the project paths and the log folder names of the model
ProjectPaths == {"/home/u/app", "/home/u/my-app", "/home/u/my/app", "/tmp/x"}
FolderNames == {"-home-u-app", "-home-u-my-app", "-tmp-x"}

\* the string of the given characters
Text(cs) == CHOOSE s \in ProjectPaths \cup FolderNames : Chars(s) = cs

\* str::replace(from, to) for characters
replace(cs, from, to) ==
    [i \in 1..Len(cs) |-> IF cs[i] = from THEN to ELSE cs[i]]

\* encode_path_to_folder: path.replace('/', "-")
encode_path_to_folder(path) == Text(replace(Chars(path), "/", "-"))

RECURSIVE InsertProjects(_, _)
\* for (path, _) in projects { map.insert(encode_path_to_folder(path), path) }
\* over the keys of the projects object in the order it is iterated in
InsertProjects(map, paths) ==
    IF paths = <<>> THEN map
    ELSE LET path == Head(paths)
             encoded == encode_path_to_folder(path)
         IN  InsertProjects([x \in DOMAIN map \cup {encoded} |->
                                IF x = encoded THEN path ELSE map[x]],
                            Tail(paths))

\* build_project_path_map over ~/.claude.json.  The document is "missing"
\* (File::open fails), "unreadable" (read_to_string fails), "malformed" (not
\* JSON), "no_projects" (JSON with no object under "projects") or
\* "projects", with the keys of its projects object
build_project_path_map(doc) ==
    IF doc.state = "projects" THEN InsertProjects(<<>>, doc.projects)
    ELSE <<>>

\* extract_project_path: the registered path of the parent folder, else the
\* folder name itself
extract_project_path(map, file) ==
    IF file.folder \in DOMAIN map THEN map[file.folder] ELSE file.folder

unwrap_or(opt, default) == IF opt = None THEN default ELSE opt[1]

\* mutant: the role of the message is not looked at
parse_line_any_role(line, project) ==
    IF line.json # "entry" THEN None
    ELSE LET raw == line.raw IN
    IF raw.entry_type # Some("assistant") THEN None
    ELSE IF raw.message = None THEN None
    ELSE LET message == raw.message[1] IN
    IF message.usage = None THEN None
    ELSE IF message.model = None THEN None
    ELSE IF raw.timestamp = None THEN None
    ELSE IF parse_from_rfc3339(raw.timestamp[1]) = None THEN None
    ELSE LET usage == message.usage[1] IN
        Some([timestamp |-> parse_from_rfc3339(raw.timestamp[1])[1],
              session_id |-> unwrap_or(raw.session_id, ""),
              model |-> message.model[1],
              input_tokens |-> unwrap_or(usage.input_tokens, 0),
              output_tokens |-> unwrap_or(usage.output_tokens, 0),
              cache_creation_tokens |->
                  unwrap_or(usage.cache_creation_input_tokens, 0),
              cache_read_tokens |-> unwrap_or(usage.cache_read_input_tokens, 0),
              uuid |-> unwrap_or(raw.uuid, ""),
              project |-> project])

\* parse_line: Some(UsageEntry) or None
parse_line(line, project) ==
    IF line.json # "entry" THEN None
    ELSE LET raw == line.raw IN
    IF raw.entry_type # Some("assistant") THEN None
    ELSE IF raw.message = None THEN None
    ELSE LET message == raw.message[1] IN
    IF message.role # Some("assistant") THEN None
    ELSE IF message.usage = None THEN None
    ELSE IF message.model = None THEN None
    ELSE IF raw.timestamp = None THEN None
    ELSE IF parse_from_rfc3339(raw.timestamp[1]) = None THEN None
    ELSE LET usage == message.usage[1] IN
        Some([timestamp |-> parse_from_rfc3339(raw.timestamp[1])[1],
              session_id |-> unwrap_or(raw.session_id, ""),
              model |-> message.model[1],
              input_tokens |-> unwrap_or(usage.input_tokens, 0),
              output_tokens |-> unwrap_or(usage.output_tokens, 0),
              cache_creation_tokens |->
                  unwrap_or(usage.cache_creation_input_tokens, 0),
              cache_read_tokens |-> unwrap_or(usage.cache_read_input_tokens, 0),
              uuid |-> unwrap_or(raw.uuid, ""),
              project |-> project])

\* glob(<claude_dir>/**/*.jsonl) over the log root.  The root is "present"
\* with its files, "missing" (nothing matches) or "unreadable" (the walk
\* yields a GlobError for the directory it cannot list, whatever lies below)
glob(root) ==
    CASE root.state = "present" ->
             [i \in 1..Len(root.files) |-> [ok |-> TRUE, path |-> root.files[i]]]
      [] root.state = "missing" -> <<>>
      [] root.state = "unreadable" -> <<[ok |-> FALSE, path |-> None]>>

RECURSIVE filter_map_ok(_)
\* paths.filter_map(|entry| entry.ok()).collect()
filter_map_ok(paths) ==
    IF paths = <<>> THEN <<>>
    ELSE IF Head(paths).ok THEN <<Head(paths).path>> \o filter_map_ok(Tail(paths))
    ELSE filter_map_ok(Tail(paths))

\* position of x in a sequence ordered by `mtime` newest first, after its equals
FilePlace(sorted, x) ==
    Cardinality({i \in 1..Len(sorted) : sorted[i].mtime >= x.mtime})

RECURSIVE find_jsonl_files(_)
\* the files of the tree (given in glob order), by modification time, newest
\* first; slice::sort_by is stable
find_jsonl_files(tree) ==
    IF tree = <<>> THEN <<>>
    ELSE LET sorted == find_jsonl_files(SubSeq(tree, 1, Len(tree) - 1))
             x == tree[Len(tree)]
             k == FilePlace(sorted, x)
         IN  SubSeq(sorted, 1, k) \o <<x>> \o SubSeq(sorted, k + 1, Len(sorted))

\* mutant: the id is never recorded as seen
ScanLine_no_insert(acc, line, project, cutoff) ==
    IF ~line.io_ok \/ line.blank THEN acc
    ELSE LET parsed == parse_line(line, project) IN
    IF parsed = None THEN acc
    ELSE LET entry == parsed[1] IN
    IF cutoff # None /\ entry.timestamp < cutoff[1] THEN acc
    ELSE IF entry.uuid # "" /\ entry.uuid \in acc.seen_uuids THEN acc
    ELSE [acc EXCEPT !.entries = Append(@, entry)]

\* mutant: the id is recorded as seen before the age of the record is looked at
ScanLine_seen_before_filter(acc, line, project, cutoff) ==
    IF ~line.io_ok \/ line.blank THEN acc
    ELSE LET parsed == parse_line(line, project) IN
    IF parsed = None THEN acc
    ELSE LET entry == parsed[1] IN
    IF entry.uuid # "" /\ entry.uuid \in acc.seen_uuids THEN acc
    ELSE IF cutoff # None /\ entry.timestamp < cutoff[1]
    THEN [acc EXCEPT
             !.seen_uuids = IF entry.uuid # "" THEN @ \cup {entry.uuid} ELSE @]
    ELSE [acc EXCEPT
             !.entries = Append(@, entry),
             !.seen_uuids = IF entry.uuid # "" THEN @ \cup {entry.uuid} ELSE @]

\* mutant: the empty id is an id like any other
ScanLine_empty_id_deduped(acc, line, project, cutoff) ==
    IF ~line.io_ok \/ line.blank THEN acc
    ELSE LET parsed == parse_line(line, project) IN
    IF parsed = None THEN acc
    ELSE LET entry == parsed[1] IN
    IF cutoff # None /\ entry.timestamp < cutoff[1] THEN acc
    ELSE IF entry.uuid \in acc.seen_uuids THEN acc
    ELSE [acc EXCEPT
             !.entries = Append(@, entry),
             !.seen_uuids = @ \cup {entry.uuid}]

\* the body of read_entries' inner loop for one line of a file; acc holds
\* the locals `entries` and `seen_uuids`
ScanLine(acc, line, project, cutoff) ==
    IF ~line.io_ok \/ line.blank THEN acc
    ELSE LET parsed == parse_line(line, project) IN
    IF parsed = None THEN acc
    ELSE LET entry == parsed[1] IN
    IF cutoff # None /\ entry.timestamp < cutoff[1] THEN acc
    ELSE IF entry.uuid # "" /\ entry.uuid \in acc.seen_uuids THEN acc
    ELSE [acc EXCEPT
             !.entries = Append(@, entry),
             !.seen_uuids = IF entry.uuid # "" THEN @ \cup {entry.uuid} ELSE @]

RECURSIVE ScanLines(_, _, _, _)
\* for line in reader.lines(): the loop ends when the reader is at the end
\* of the file; at a line whose read fails without advancing the reader it
\* meets the same error at every turn and does not end
ScanLines(acc, lines, project, cutoff) ==
    IF lines = <<>> THEN acc
    ELSE IF ~Head(lines).io_ok /\ ~Head(lines).advances
    THEN [acc EXCEPT !.hung = TRUE]
    ELSE ScanLines(ScanLine(acc, Head(lines), project, cutoff),
                   Tail(lines), project, cutoff)

\* mutant: the seen-id set is kept per file
ScanFile_per_file_seen(map, acc, file, cutoff) ==
    IF ~file.readable THEN acc
    ELSE ScanLines([acc EXCEPT !.seen_uuids = {}], file.lines,
                   extract_project_path(map, file), cutoff)

\* the body of read_entries' outer loop for one file
ScanFile(map, acc, file, cutoff) ==
    IF ~file.readable THEN acc
    ELSE ScanLines(acc, file.lines, extract_project_path(map, file), cutoff)

RECURSIVE ScanFiles(_, _, _, _)
\* for file_path in files
ScanFiles(map, acc, found, cutoff) ==
    IF found = <<>> \/ acc.hung THEN acc
    ELSE ScanFiles(map, ScanFile(map, acc, Head(found), cutoff),
                   Tail(found), cutoff)

\* position of x in a sequence ordered by timestamp, after its equals
EntryPlace(sorted, x) ==
    Cardinality({i \in 1..Len(sorted) : sorted[i].timestamp <= x.timestamp})

RECURSIVE SortByTimestamp(_)
\* entries.sort_by(|a, b| a.timestamp.cmp(&b.timestamp)): stable, oldest first
SortByTimestamp(s) ==
    IF s = <<>> THEN <<>>
    ELSE LET sorted == SortByTimestamp(SubSeq(s, 1, Len(s) - 1))
             x == s[Len(s)]
             k == EntryPlace(sorted, x)
         IN  SubSeq(sorted, 1, k) \o <<x>> \o SubSeq(sorted, k + 1, Len(sorted))

\* mutant: the entries are returned newest first
SortEntries_newest_first(s) ==
    LET sorted == SortByTimestamp(s)
    IN  [i \in 1..Len(sorted) |-> sorted[Len(sorted) + 1 - i]]

\* the final sort of read_entries
SortEntries(s) == SortByTimestamp(s)

\* the loops of read_entries(days) at clock time t over the tree: the locals
\* `entries` and `seen_uuids` after them, and whether the loops never end
scan_entries(tree, map, days, t) ==
    LET cutoff == IF days = None THEN None ELSE Some(t - days[1] * MsPerDay)
    IN  ScanFiles(map, [entries |-> <<>>, seen_uuids |-> {}, hung |-> FALSE],
                  find_jsonl_files(tree), cutoff)

\* read_entries(days) at clock time t over the tree, when it returns
read_entries(tree, map, days, t) ==
    SortEntries(scan_entries(tree, map, days, t).entries)

\* read_all_entries
read_all_entries(tree, map, t) == read_entries(tree, map, None, t)

----------------------------------------------------------------------------
(* analytics.rs: calculate_stats *)

RECURSIVE Gcd(_, _)
Gcd(a, b) == IF b = 0 THEN a ELSE Gcd(b, a % b)

\* an f64 quotient n / d (d > 0, n >= 0) kept exact, in lowest terms
Ratio(n, d) == LET g == Gcd(n, d) IN [num |-> n \div g, den |-> d \div g]

\* the f64 value 0.0
Zero == [num |-> 0, den |-> 1]

\* ModelStats::default()
DefaultModelStats ==
    [input_tokens |-> 0, output_tokens |-> 0, cache_creation_tokens |-> 0,
     cache_read_tokens |-> 0, cost |-> 0, message_count |-> 0]

\* mutant: a project's stats start with one message counted
DefaultProjectStats_counted(name) ==
    [name |-> name, input_tokens |-> 0, output_tokens |-> 0, cost |-> 0,
     message_count |-> 1]

\* ProjectStats { name, ..Default::default() }
DefaultProjectStats(name) ==
    [name |-> name, input_tokens |-> 0, output_tokens |-> 0, cost |-> 0,
     message_count |-> 0]

\* AnalyticsStats::default(); a HashMap is a function on its key set
DefaultStats ==
    [total_input_tokens |-> 0, total_output_tokens |-> 0,
     total_cache_creation_tokens |-> 0, total_cache_read_tokens |-> 0,
     today_input_tokens |-> 0, today_output_tokens |-> 0, today_cost |-> 0,
     today_messages |-> 0,
     current_session_tokens |-> 0, current_session_cost |-> 0,
     today_session_count |-> 0, total_session_count |-> 0,
     tokens_per_minute |-> Zero, cost_per_hour |-> Zero,
     total_cost |-> 0,
     by_model |-> <<>>, by_project |-> <<>>,
     today_messages_count |-> 0, total_messages_count |-> 0,
     last_updated |-> None]

\* HashMap::entry(k).or_insert_with(default), then the update f of the value
Upsert(map, k, default, f(_)) ==
    [x \in DOMAIN map \cup {k} |->
        IF x = k THEN f(IF k \in DOMAIN map THEN map[k] ELSE default)
        ELSE map[x]]

\* mutant: "today" is the calendar date of the pass, no more
IsToday_same_date(timestamp, today_start) ==
    timestamp >= today_start /\ timestamp < today_start + MsPerDay

\* let is_today = entry.timestamp >= today_start
IsToday(timestamp, today_start) == timestamp >= today_start

\* mutant: the burn window is open at both ends
InBurnWindow_unbounded(timestamp, burn_window_start) == TRUE

\* if entry.timestamp >= burn_window_start
InBurnWindow(timestamp, burn_window_start) == timestamp >= burn_window_start

\* mutant: every record of the window sets the divisor anew
BurnMinutesAfter_every_record(burn_window_minutes, t, timestamp) ==
    Max(NumMinutes(t - timestamp), 1)

\* mutant: a younger record of the window lowers the divisor
BurnMinutesAfter_youngest(burn_window_minutes, t, timestamp) ==
    LET minutes == Max(NumMinutes(t - timestamp), 1)
    IN  IF burn_window_minutes = 0 \/ minutes < burn_window_minutes
        THEN minutes ELSE burn_window_minutes

\* if burn_window_minutes == 0 {
\*     burn_window_minutes = (now - entry.timestamp).num_minutes().max(1) }
BurnMinutesAfter(burn_window_minutes, t, timestamp) ==
    IF burn_window_minutes = 0 THEN Max(NumMinutes(t - timestamp), 1)
    ELSE burn_window_minutes

\* the body of calculate_stats' loop for one entry; acc holds `stats` and
\* the locals of the pass, t is the `now` captured at the start of the pass
Accumulate(acc, entry, t) ==
    LET cost == Units(calculate_entry_cost(entry))
        is_today == IsToday(entry.timestamp, TodayStart(t))
        session_key == get_session_block_key(entry.timestamp)
        is_current_session == session_key = get_session_block_key(t)
        in_burn == InBurnWindow(entry.timestamp, t - BurnMinutes * MsPerMinute)
        st == acc.stats
        AddModel(m) ==
            [input_tokens |-> m.input_tokens + entry.input_tokens,
             output_tokens |-> m.output_tokens + entry.output_tokens,
             cache_creation_tokens |->
                 m.cache_creation_tokens + entry.cache_creation_tokens,
             cache_read_tokens |-> m.cache_read_tokens + entry.cache_read_tokens,
             cost |-> m.cost + cost,
             message_count |-> m.message_count + 1]
        AddProject(q) ==
            [name |-> q.name,
             input_tokens |-> q.input_tokens + entry.input_tokens,
             output_tokens |-> q.output_tokens + entry.output_tokens,
             cost |-> q.cost + cost,
             message_count |-> q.message_count + 1]
    IN  [stats |->
            [st EXCEPT
                !.total_input_tokens = @ + entry.input_tokens,
                !.total_output_tokens = @ + entry.output_tokens,
                !.total_cache_creation_tokens = @ + entry.cache_creation_tokens,
                !.total_cache_read_tokens = @ + entry.cache_read_tokens,
                !.total_cost = @ + cost,
                !.total_messages_count = @ + 1,
                !.today_input_tokens =
                    IF is_today THEN @ + entry.input_tokens ELSE @,
                !.today_output_tokens =
                    IF is_today THEN @ + entry.output_tokens ELSE @,
                !.today_cost = IF is_today THEN @ + cost ELSE @,
                !.today_messages = IF is_today THEN @ + 1 ELSE @,
                !.today_messages_count = IF is_today THEN @ + 1 ELSE @,
                !.current_session_tokens =
                    IF is_current_session THEN @ + total_tokens(entry) ELSE @,
                !.current_session_cost =
                    IF is_current_session THEN @ + cost ELSE @,
                !.by_model =
                    Upsert(@, entry.model, DefaultModelStats, AddModel),
                !.by_project =
                    Upsert(@, entry.project,
                           DefaultProjectStats(entry.project), AddProject)],
         session_blocks |-> acc.session_blocks \cup {session_key},
         today_session_blocks |->
            IF is_today THEN acc.today_session_blocks \cup {session_key}
            ELSE acc.today_session_blocks,
         burn_window_tokens |->
            IF in_burn THEN acc.burn_window_tokens + total_tokens(entry)
            ELSE acc.burn_window_tokens,
         burn_window_cost |->
            IF in_burn THEN acc.burn_window_cost + cost
            ELSE acc.burn_window_cost,
         burn_window_minutes |->
            IF in_burn
            THEN BurnMinutesAfter(acc.burn_window_minutes, t, entry.timestamp)
            ELSE acc.burn_window_minutes]

RECURSIVE AccumulateAll(_, _, _)
AccumulateAll(acc, es, t) ==
    IF es = <<>> THEN acc
    ELSE AccumulateAll(Accumulate(acc, Head(es), t), Tail(es), t)

\* the state of a pass before its first entry
PassStart ==
    [stats |-> DefaultStats, session_blocks |-> {},
     today_session_blocks |-> {}, burn_window_tokens |-> 0,
     burn_window_cost |-> 0, burn_window_minutes |-> 0]

\* the state of the pass over es at its last entry
PassEnd(es, t) == AccumulateAll(PassStart, es, t)

\* mutant: the rates are computed whatever the divisor; x / 0.0 is not 0.0
BurnRates_unguarded(st, tokens, cost, minutes) ==
    [st EXCEPT
        !.tokens_per_minute =
            IF minutes > 0 THEN Ratio(tokens, minutes)
            ELSE [num |-> 1, den |-> 0],
        !.cost_per_hour =
            IF minutes > 0 THEN Ratio(cost * 60, minutes)
            ELSE [num |-> 1, den |-> 0]]

\* if burn_window_minutes > 0 { tokens_per_minute = ...; cost_per_hour = ... }
BurnRates(st, tokens, cost, minutes) ==
    IF minutes > 0
    THEN [st EXCEPT !.tokens_per_minute = Ratio(tokens, minutes),
                    !.cost_per_hour = Ratio(cost * 60, minutes)]
    ELSE st

\* mutant: the total cost is kept in whole CostUnits, rounded up
calculate_stats_whole_units(es, t) ==
    LET acc == PassEnd(es, t)
        counted ==
            [acc.stats EXCEPT
                !.total_cost = ((@ + PerMillion - 1) \div PerMillion) * PerMillion,
                !.total_session_count = Cardinality(acc.session_blocks),
                !.today_session_count = Cardinality(acc.today_session_blocks)]
        rated == BurnRates(counted, acc.burn_window_tokens,
                           acc.burn_window_cost, acc.burn_window_minutes)
    IN  [rated EXCEPT !.last_updated = Some(t)]

\* calculate_stats(entries) with Utc::now() = t
calculate_stats(es, t) ==
    LET acc == PassEnd(es, t)
        counted ==
            [acc.stats EXCEPT
                !.total_session_count = Cardinality(acc.session_blocks),
                !.today_session_count = Cardinality(acc.today_session_blocks)]
        rated == BurnRates(counted, acc.burn_window_tokens,
                           acc.burn_window_cost, acc.burn_window_minutes)
    IN  [rated EXCEPT !.last_updated = Some(t)]

----------------------------------------------------------------------------
(* usage.rs: get_latest_response *)

\* A text is the sequence of its characters, each a string: a letter, a
\* space, or "U+00E9" for the character of that code point, which UTF-8
\* writes on two bytes.
utf8_len(c) == IF c = "U+00E9" THEN 2 ELSE 1

RECURSIVE len(_)
\* str::len(): the length in bytes
len(cs) == IF cs = <<>> THEN 0 ELSE utf8_len(Head(cs)) + len(Tail(cs))

RECURSIVE trim_start(_)
trim_start(cs) ==
    IF cs # <<>> /\ Head(cs) = " " THEN trim_start(Tail(cs)) ELSE cs

RECURSIVE trim_end(_)
trim_end(cs) ==
    IF cs # <<>> /\ cs[Len(cs)] = " " THEN trim_end(SubSeq(cs, 1, Len(cs) - 1))
    ELSE cs

\* str::trim()
trim(cs) == trim_end(trim_start(cs))

RECURSIVE join(_, _)
\* text_parts.join(sep)
join(parts, sep) ==
    IF parts = <<>> THEN <<>>
    ELSE IF Len(parts) = 1 THEN parts[1]
    ELSE parts[1] \o sep \o join(Tail(parts), sep)

\* ContentBlock::as_text: the text of a Text block whose type is "text"
as_text(block) ==
    IF block.block_type = "text" /\ block.text # None THEN block.text ELSE None

RECURSIVE text_parts(_)
\* content.iter().filter_map(|block| block.as_text()).collect()
text_parts(content) ==
    IF content = <<>> THEN <<>>
    ELSE LET part == as_text(Head(content))
         IN  (IF part = None THEN <<>> ELSE <<part[1]>>)
                 \o text_parts(Tail(content))

\* how a get_latest_response call ends
Gives(value) == [kind |-> "returned", value |-> value]
Panics == [kind |-> "panic", value |-> None]
Hangs == [kind |-> "hung", value |-> None]

\* if trimmed.len() > max_chars { format!("{}...", &trimmed[..max_chars]) }
\* else { trimmed.to_string() }: the slice panics when byte max_chars is not
\* the start of a character
excerpt(trimmed, max) ==
    IF len(trimmed) > max
    THEN IF \E k \in 0..Len(trimmed) : len(SubSeq(trimmed, 1, k)) = max
         THEN Gives(Some(SubSeq(trimmed, 1,
                               CHOOSE k \in 0..Len(trimmed) :
                                   len(SubSeq(trimmed, 1, k)) = max)
                           \o <<".", ".", ".">>))
         ELSE Panics
    ELSE Gives(Some(trimmed))

\* the body of the loop over the lines of a file, for one line: None when
\* the loop goes on to the line before
ResponseOfLine(line, max) ==
    IF line.blank \/ line.json # "entry" THEN None
    ELSE IF line.raw.entry_type # Some("assistant") THEN None
    ELSE IF line.raw.message = None THEN None
    ELSE LET message == line.raw.message[1] IN
    IF message.role # Some("assistant") THEN None
    ELSE IF message.content = None THEN None
    ELSE LET parts == text_parts(message.content[1]) IN
    IF parts = <<>> THEN None
    ELSE LET trimmed == trim(join(parts, <<" ">>)) IN
    IF trimmed = <<>> THEN None
    ELSE Some(excerpt(trimmed, max))

RECURSIVE ResponseOfLines(_, _)
\* for line in lines.iter().rev()
ResponseOfLines(lines, max) ==
    IF lines = <<>> THEN None
    ELSE LET found == ResponseOfLine(lines[Len(lines)], max)
         IN  IF found # None THEN found
             ELSE ResponseOfLines(SubSeq(lines, 1, Len(lines) - 1), max)

RECURSIVE lines_ok(_)
\* reader.lines().filter_map(|l| l.ok()).collect()
lines_ok(lines) ==
    IF lines = <<>> THEN <<>>
    ELSE (IF Head(lines).io_ok THEN <<Head(lines)>> ELSE <<>>)
             \o lines_ok(Tail(lines))

RECURSIVE ResponseOfFiles(_, _)
\* for file_path in files.iter().take(5): a file that does not open is
\* passed over; collecting the lines never ends when a read fails and
\* fails again at every attempt
ResponseOfFiles(found, max) ==
    IF found = <<>> THEN Gives(None)
    ELSE LET file == Head(found) IN
    IF ~file.readable THEN ResponseOfFiles(Tail(found), max)
    ELSE IF \E i \in 1..Len(file.lines) :
                ~file.lines[i].io_ok /\ ~file.lines[i].advances
    THEN Hangs
    ELSE LET response == ResponseOfLines(lines_ok(file.lines), max)
         IN  IF response # None THEN response[1]
             ELSE ResponseOfFiles(Tail(found), max)

\* files.iter().take(n)
take(found, n) == SubSeq(found, 1, IF Len(found) < n THEN Len(found) ELSE n)

\* the files get_latest_response looks at
LatestFiles == 5

\* UsageReader::get_latest_response
get_latest_response(tree, max) ==
    ResponseOfFiles(take(find_jsonl_files(tree), LatestFiles), max)

----------------------------------------------------------------------------
(* analytics.rs: get_chart_data *)

\* the decimal digit n as a character
Digit(n) == <<"0", "1", "2", "3", "4", "5", "6", "7", "8", "9">>[n + 1]

\* entry.timestamp.format("%Y-%m-%d").to_string(), as its characters: the
\* year on four digits, the month and the day on two
date_key(timestamp) ==
    LET y == Year(timestamp)
        m == Month(timestamp)
        d == Day(timestamp)
    IN  <<Digit(y \div 1000), Digit((y \div 100) % 10), Digit((y \div 10) % 10),
          Digit(y % 10), "-", Digit(m \div 10), Digit(m % 10), "-",
          Digit(d \div 10), Digit(d % 10)>>

\* the byte of a character of a date key
Byte(c) ==
    IF c = "-" THEN 45
    ELSE 48 + (CHOOSE n \in 0..9 : Digit(n) = c)

RECURSIVE StrLess(_, _)
\* String's Ord: a.cmp(&b) = Less, byte by byte, a proper prefix first
StrLess(a, b) ==
    IF b = <<>> THEN FALSE
    ELSE IF a = <<>> THEN TRUE
    ELSE IF Byte(Head(a)) # Byte(Head(b)) THEN Byte(Head(a)) < Byte(Head(b))
    ELSE StrLess(Tail(a), Tail(b))

\* mutant: the chart prices its entries by the table of pricing.rs
ChartCost_by_pricing(entry) ==
    Units(calculate_cost(entry.model, entry.input_tokens, entry.output_tokens,
                         entry.cache_creation_tokens, entry.cache_read_tokens))

\* let cost = calculate_entry_cost(entry)
ChartCost(entry) == Units(calculate_entry_cost(entry))

\* the four loops of get_chart_data over one entry: daily_map, hourly_map,
\* model_map and project_map
ChartEntry(acc, entry) ==
    LET cost == ChartCost(entry)
        AddDaily(x) ==
            [date |-> x.date,
             input_tokens |-> x.input_tokens + entry.input_tokens,
             output_tokens |-> x.output_tokens + entry.output_tokens,
             cost |-> x.cost + cost,
             messages |-> x.messages + 1]
        AddHourly(h) ==
            [hour |-> h.hour, tokens |-> h.tokens + total_tokens(entry),
             messages |-> h.messages + 1]
        AddSlice(x) ==
            [tokens |-> x.tokens + total_tokens(entry), cost |-> x.cost + cost]
    IN  [daily_map |->
            Upsert(acc.daily_map, date_key(entry.timestamp),
                   [date |-> date_key(entry.timestamp), input_tokens |-> 0,
                    output_tokens |-> 0, cost |-> 0, messages |-> 0],
                   AddDaily),
         hourly_map |->
            Upsert(acc.hourly_map, Hour(entry.timestamp),
                   [hour |-> Hour(entry.timestamp), tokens |-> 0,
                    messages |-> 0],
                   AddHourly),
         model_map |->
            Upsert(acc.model_map, entry.model, [tokens |-> 0, cost |-> 0],
                   AddSlice),
         project_map |->
            Upsert(acc.project_map, entry.project, [tokens |-> 0, cost |-> 0],
                   AddSlice)]

RECURSIVE ChartMaps(_, _)
\* the four maps after the loops over the entries
ChartMaps(acc, es) ==
    IF es = <<>> THEN acc
    ELSE ChartMaps(ChartEntry(acc, Head(es)), Tail(es))

\* all orders of the elements of a finite set
Perms(S) ==
    {s \in [1..Cardinality(S) -> S] :
        \A i, j \in 1..Cardinality(S) : i # j => s[i] # s[j]}

\* daily.sort_by(|a, b| a.date.cmp(&b.date)): the values of daily_map by
\* rising date string
ByDate(map) ==
    LET keys == CHOOSE s \in Perms(DOMAIN map) :
                    \A i, j \in 1..Len(s) : i < j => StrLess(s[i], s[j])
    IN  [i \in 1..Len(keys) |-> map[keys[i]]]

\* hourly.sort_by_key(|h| h.hour): the values of hourly_map by rising hour
ByKey(map) ==
    LET keys == CHOOSE s \in Perms(DOMAIN map) :
                    \A i, j \in 1..Len(s) : i < j => s[i] < s[j]
    IN  [i \in 1..Len(keys) |-> map[keys[i]]]

\* mutant: the slices are left in the order the HashMap gave them
SliceOrders_unsorted(map) ==
    {[i \in 1..Len(s) |->
         [name |-> s[i], tokens |-> map[s[i]].tokens, cost |-> map[s[i]].cost]] :
        s \in Perms(DOMAIN map)}

\* the orders a slice can come in: a HashMap is iterated in any order, and
\* sort_by(|a, b| b.tokens.cmp(&a.tokens)) keeps equal items as they came
SliceOrders(map) ==
    {[i \in 1..Len(s) |->
         [name |-> s[i], tokens |-> map[s[i]].tokens, cost |-> map[s[i]].cost]] :
        s \in {o \in Perms(DOMAIN map) :
                  \A i, j \in 1..Len(o) :
                      i < j => map[o[i]].tokens >= map[o[j]].tokens}}

\* the ChartData values get_chart_data can build from the entries
chart_data(es) ==
    LET maps == ChartMaps([daily_map |-> <<>>, hourly_map |-> <<>>,
                           model_map |-> <<>>, project_map |-> <<>>], es)
    IN  [daily : {ByDate(maps.daily_map)},
         hourly : {ByKey(maps.hourly_map)},
         by_model : SliceOrders(maps.model_map),
         by_project : SliceOrders(maps.project_map)]

----------------------------------------------------------------------------
(* analytics.rs: AnalyticsService, the stats cache *)

\* the threads that call into the service: the webview's command handlers
\* (lib.rs get_stats / refresh_stats) and the tray (tray.rs menu build and
\* the thread of its "refresh" item)
Callers == {"ui", "tray"}

\* the fields of AnalyticsStats a clone or a store moves first; the other
\* fields (by_model .. last_updated) follow
FirstHalf ==
    {"total_input_tokens", "total_output_tokens",
     "total_cache_creation_tokens", "total_cache_read_tokens",
     "today_input_tokens", "today_output_tokens", "today_cost",
     "today_messages", "current_session_tokens", "current_session_cost",
     "today_session_count", "total_session_count", "tokens_per_minute",
     "cost_per_hour", "total_cost"}

\* a value that is `from` in the first half of its fields and `rest` elsewhere
Halves(from, rest) ==
    [f \in DOMAIN DefaultStats |-> IF f \in FirstHalf THEN from[f] ELSE rest[f]]

\* mutant: the cache is stale once 30 seconds have passed
needs_refresh_at_threshold(last_seen, t) ==
    IF last_seen = None THEN TRUE
    ELSE t - last_seen[1] >= StaleSeconds * MsPerSecond

\* mutant: the cache is stale while it is younger than 30 seconds
needs_refresh_inverted(last_seen, t) ==
    IF last_seen = None THEN TRUE
    ELSE t - last_seen[1] < StaleSeconds * MsPerSecond

\* needs_refresh, given the value read from last_refresh and Utc::now() = t:
\*   Some(time) => Utc::now() - time > Duration::seconds(30), None => true
needs_refresh(last_seen, t) ==
    IF last_seen = None THEN TRUE
    ELSE t - last_seen[1] > StaleSeconds * MsPerSecond

\* mutant: a poisoned lock is used like a sound one
Poisoned_ignored(flag) == FALSE

\* RwLock::read / RwLock::write return Err when the lock is poisoned
Poisoned(flag) == flag

\* RwLock::read returns once no writer holds the lock
CanRead(lock) == lock.writer = None

\* mutant: a writer does not wait for the readers
CanWrite_ignoring_readers(lock) == lock.writer = None

\* RwLock::write returns once no reader and no writer holds the lock
CanWrite(lock) == lock.writer = None /\ lock.readers = {}

\* the bookkeeping of a call: the clock at its start, whether no other call
\* ran during it, whether a value was cached when it looked at last_refresh, what its read of the cached state met ("unread",
\* "some", "none", "poisoned"), and the stores it skipped
NoCall ==
    [since |-> 0, solo |-> TRUE, cached |-> FALSE, found |-> "unread",
     skipped |-> {}]

\* a call by t begins, and every call under way is no longer alone
Begin(t) ==
    [u \in Callers |->
        IF u = t
        THEN [since |-> now, cached |-> FALSE,
              solo |-> \A v \in Callers \ {t} : pc[v] = "idle",
              found |-> "unread", skipped |-> {}]
        ELSE IF pc[u] = "idle" THEN call[u]
        ELSE [call[u] EXCEPT !.solo = FALSE]]

\* the outcome of the call t finishes: the value returned, how it was
\* obtained ("cache" or "computed") and when, with what the call observed
Outcome(t, value, via, skipped) ==
    [method |-> op[t], value |-> value, via |-> via,
     since |-> call[t].since, at |-> now,
     solo |-> call[t].solo, cached |-> call[t].cached,
     found |-> call[t].found,
     skipped |-> skipped,
     elapsed |-> IF last[t] = None \/ checked_at[t] = None THEN None
                 ELSE Some(checked_at[t][1] - last[t][1])]

\* the locals of t dropped at the end of its call
Drop(t) ==
    /\ op' = [op EXCEPT ![t] = "none"]
    /\ last' = [last EXCEPT ![t] = None]
    /\ checked_at' = [checked_at EXCEPT ![t] = None]
    /\ entries' = [entries EXCEPT ![t] = <<>>]
    /\ stats' = [stats EXCEPT ![t] = None]
    /\ copy' = [copy EXCEPT ![t] = None]
    /\ call' = [call EXCEPT ![t] = NoCall]

\* a caller enters get_stats
CallGetStats(t) ==
    /\ pc[t] = "idle"
    /\ calls < MaxCalls
    /\ calls' = calls + 1
    /\ call' = Begin(t)
    /\ pc' = [pc EXCEPT ![t] = "needs_refresh"]
    /\ op' = [op EXCEPT ![t] = "get_stats"]
    /\ UNCHANGED <<env, locals, ret, shared, probe>>

\* a caller enters refresh_stats
CallRefreshStats(t) ==
    /\ pc[t] = "idle"
    /\ calls < MaxCalls
    /\ calls' = calls + 1
    /\ call' = Begin(t)
    /\ pc' = [pc EXCEPT ![t] = "read_entries"]
    /\ op' = [op EXCEPT ![t] = "refresh_stats"]
    /\ UNCHANGED <<env, locals, ret, shared, probe>>

\* get_stats: if !self.needs_refresh().  needs_refresh reads last_refresh
\* under its read lock and compares it with Utc::now() while it holds the
\* guard; a poisoned lock makes it return true.  get_stats then reads the
\* cache or falls through to refresh_stats.
NeedsRefresh(t) ==
    /\ pc[t] = "needs_refresh"
    /\ IF Poisoned(refresh_poisoned)
       THEN /\ pc' = [pc EXCEPT ![t] = "read_entries"]
            /\ call' = [call EXCEPT ![t].found = "poisoned",
                                    ![t].cached = cached_stats # None]
            /\ UNCHANGED <<last, checked_at>>
       ELSE /\ last' = [last EXCEPT ![t] = last_refresh]
            /\ checked_at' = [checked_at EXCEPT ![t] = Some(now)]
            /\ pc' = [pc EXCEPT ![t] = IF needs_refresh(last_refresh, now)
                                       THEN "read_entries" ELSE "read_cache"]
            /\ call' = [call EXCEPT ![t].cached = cached_stats # None]
    /\ UNCHANGED <<env, op, entries, stats, copy, ret, shared, calls, probe>>

\* get_stats: self.cached_stats.read(), then the start of guard.clone().
\* Err (poisoned) or a None in the cache falls through to refresh_stats.
ReadCache(t) ==
    /\ pc[t] = "read_cache"
    /\ CanRead(cache_lock)
    /\ IF Poisoned(cache_lock.poisoned) \/ cached_stats = None
       THEN /\ pc' = [pc EXCEPT ![t] = "read_entries"]
            /\ call' = [call EXCEPT ![t].found =
                          IF Poisoned(cache_lock.poisoned) THEN "poisoned"
                          ELSE "none"]
            /\ UNCHANGED <<copy, cache_lock>>
       ELSE /\ pc' = [pc EXCEPT ![t] = "clone_rest"]
            /\ call' = [call EXCEPT ![t].found = "some"]
            /\ cache_lock' = [cache_lock EXCEPT !.readers = @ \cup {t}]
            /\ copy' = [copy EXCEPT
                          ![t] = Some(Halves(cached_stats[1], DefaultStats))]
    /\ UNCHANGED <<env, op, last, checked_at, entries, stats, ret,
                   cached_stats, last_refresh, refresh_poisoned, calls, probe>>

\* get_stats: the rest of guard.clone(), and `return stats` (the guard drops)
ReturnCached(t) ==
    /\ pc[t] = "clone_rest"
    /\ ret' = Some(Outcome(t, Halves(copy[t][1], cached_stats[1]), "cache", {}))
    /\ cache_lock' = [cache_lock EXCEPT !.readers = @ \ {t}]
    /\ pc' = [pc EXCEPT ![t] = "idle"]
    /\ Drop(t)
    /\ UNCHANGED <<env, cached_stats, last_refresh, refresh_poisoned,
                   calls, probe>>

\* refresh_stats: let entries = self.usage_reader.read_all_entries()
ReadAllEntries(t) ==
    /\ pc[t] = "read_entries"
    /\ LET scan == scan_entries(files, registry, None, now)
       IN  /\ ~scan.hung
           /\ entries' = [entries EXCEPT ![t] = SortEntries(scan.entries)]
    /\ pc' = [pc EXCEPT ![t] = "calculate"]
    /\ UNCHANGED <<env, op, last, checked_at, stats, copy, call, ret, shared,
                   calls, probe>>

\* refresh_stats: let stats = self.calculate_stats(&entries)
CalculateStats(t) ==
    /\ pc[t] = "calculate"
    /\ stats' = [stats EXCEPT ![t] = Some(calculate_stats(entries[t], now))]
    /\ pc' = [pc EXCEPT ![t] = "lock_cache"]
    /\ UNCHANGED <<env, op, last, checked_at, entries, copy, call, ret,
                   shared, calls, probe>>

\* refresh_stats: self.cached_stats.write(), then the start of
\* *guard = Some(stats.clone()); Err (poisoned) skips the store
StoreCache(t) ==
    /\ pc[t] = "lock_cache"
    /\ CanWrite(cache_lock)
    /\ IF Poisoned(cache_lock.poisoned)
       THEN /\ pc' = [pc EXCEPT ![t] = "store_time"]
            /\ call' = [call EXCEPT ![t].skipped = @ \cup {"cached_stats"}]
            /\ UNCHANGED <<cached_stats, cache_lock>>
       ELSE /\ pc' = [pc EXCEPT ![t] = "store_rest"]
            /\ cache_lock' = [cache_lock EXCEPT !.writer = Some(t)]
            /\ UNCHANGED call
            /\ cached_stats' =
                 Some(Halves(stats[t][1],
                             unwrap_or(cached_stats, DefaultStats)))
    /\ UNCHANGED <<env, op, locals, ret, last_refresh, refresh_poisoned,
                   calls, probe>>

\* refresh_stats: the rest of the store; the write guard drops
StoreCacheRest(t) ==
    /\ pc[t] = "store_rest"
    /\ cached_stats' = Some(Halves(cached_stats[1], stats[t][1]))
    /\ cache_lock' = [cache_lock EXCEPT !.writer = None]
    /\ pc' = [pc EXCEPT ![t] = "store_time"]
    /\ UNCHANGED <<env, op, locals, call, ret, last_refresh,
                   refresh_poisoned, calls, probe>>

\* refresh_stats: *guard = Some(Utc::now()) under last_refresh's write lock
\* (skipped when poisoned), then `stats` is returned
StoreTime(t) ==
    /\ pc[t] = "store_time"
    /\ last_refresh' = IF Poisoned(refresh_poisoned) THEN last_refresh
                       ELSE Some(now)
    /\ ret' = Some(Outcome(t, stats[t][1], "computed",
                            IF Poisoned(refresh_poisoned)
                            THEN call[t].skipped \cup {"last_refresh"}
                            ELSE call[t].skipped))
    /\ pc' = [pc EXCEPT ![t] = "idle"]
    /\ Drop(t)
    /\ UNCHANGED <<env, cached_stats, cache_lock, refresh_poisoned,
                   calls, probe>>

----------------------------------------------------------------------------
(* The environment: the clock, the assistant writing its logs, a panic *)

\* the clock advances in steps of thirty seconds
TickMs == 30 * MsPerSecond

\* the instant h:m:s.ms of day d
At(d, h, m, sec, ms) ==
    d * MsPerDay + h * MsPerHour + m * MsPerMinute + sec * MsPerSecond + ms

\* the clock when the cache model starts: 00:10:00 of day 1
StartTime == At(1, 0, 10, 0, 0)

\* a log line holding an assistant message with usage data
AssistantLine(timestamp, uuid, model, input, output, cache_creation, cache_read) ==
    [io_ok |-> TRUE, advances |-> TRUE, blank |-> FALSE, json |-> "entry",
     raw |-> [entry_type |-> Some("assistant"),
              timestamp |-> Some([rfc3339 |-> TRUE, wall |-> timestamp,
                                  offset |-> 0]),
              session_id |-> Some("s1"),
              uuid |-> uuid,
              message |-> Some([role |-> Some("assistant"),
                                model |-> Some(model),
                                usage |-> Some([input_tokens |-> input,
                                                output_tokens |-> output,
                                                cache_creation_input_tokens |->
                                                    cache_creation,
                                                cache_read_input_tokens |->
                                                    cache_read])])]]

\* a log line holding a user turn
UserLine(timestamp, uuid) ==
    [io_ok |-> TRUE, advances |-> TRUE, blank |-> FALSE, json |-> "entry",
     raw |-> [entry_type |-> Some("user"),
              timestamp |-> Some([rfc3339 |-> TRUE, wall |-> timestamp,
                                  offset |-> 0]),
              session_id |-> Some("s1"),
              uuid |-> uuid,
              message |-> Some([role |-> Some("user"), model |-> None,
                                usage |-> None])]]

\* the lines the trees of the model are made of.  Seen from StartTime:
\*   Old        one millisecond before the burn window, yesterday
\*   Edge       the first instant of the burn window, yesterday
\*   LastMs     23:59:59.999 of yesterday; no unique id
\*   Midnight   00:00:00 of today; carries the unique id of Old
\*   Recent     thirty seconds ago
\*   Tomorrow   00:00:00 of the next day; an empty unique id
\*   Turn       a user turn carrying the unique id of Edge
LineOld ==
    AssistantLine(At(0, 23, 39, 59, 999), Some("u1"), "claude-sonnet-4",
                  Some(100), Some(50), None, None)
LineEdge ==
    AssistantLine(At(0, 23, 40, 0, 0), Some("u2"), "claude-opus-4-20250514",
                  Some(10), Some(20), Some(4), Some(8))
LineLastMs ==
    AssistantLine(At(0, 23, 59, 59, 999), None, "claude-sonnet-4",
                  Some(7), Some(3), None, None)
LineMidnight ==
    AssistantLine(At(1, 0, 0, 0, 0), Some("u1"), "claude-haiku-3-20240307",
                  Some(40), Some(60), Some(5), None)
LineRecent ==
    AssistantLine(At(1, 0, 9, 30, 0), Some("u3"), "Claude-Sonnet-4",
                  Some(1), Some(2), None, Some(6))
LineTomorrow ==
    AssistantLine(At(2, 0, 0, 0, 0), Some(""), "claude-opus-4-20250514",
                  Some(30), None, None, None)
LineTurn == UserLine(At(1, 0, 5, 0, 0), Some("u2"))

LineCatalog ==
    {LineOld, LineEdge, LineLastMs, LineMidnight, LineRecent, LineTomorrow,
     LineTurn}

\* the two project folders of the model: one registered, one not
FolderA == "-home-u-app"
FolderB == "-tmp-x"

\* UsageReader::new: the lookup table built from ~/.claude.json
RegistryMap == [f \in {FolderA} |-> "/home/u/app"]

LogFile(folder, mtime, lines) ==
    [folder |-> folder, mtime |-> mtime, readable |-> TRUE, lines |-> lines]

\* the tree the cache model starts with
ServiceTree ==
    <<LogFile(FolderA, 1, <<LineOld, LineRecent>>),
      LogFile(FolderB, 2, <<LineMidnight>>)>>

\* the line the assistant appends at clock time t
AppendedLine(n, t) ==
    AssistantLine(t, Some("a" \o ToString(n)), "claude-sonnet-4",
                  Some(5), Some(5), None, None)

\* the tree with the assistant's n-th record, written at clock time t,
\* appended to its first log file
AppendTo(tree, n, t) ==
    [tree EXCEPT ![1].lines = Append(@, AppendedLine(n, t)),
                 ![1].mtime = 1 + Max(tree[1].mtime, tree[2].mtime)]

\* the clock advances
Tick ==
    /\ now < StartTime + MaxTicks * TickMs
    /\ now' = now + TickMs
    /\ UNCHANGED <<files, registry, appended, pc, op, locals, call, ret,
                   shared, calls, probe>>

\* the assistant appends a record to the first log file
AppendLog ==
    /\ appended < MaxAppends
    /\ appended' = appended + 1
    /\ files' = AppendTo(files, appended, now)
    /\ UNCHANGED <<registry, now, pc, op, locals, call, ret, shared,
                   calls, probe>>

\* a thread panics while it holds the write guard of cached_stats: the lock
\* is poisoned and released, and the call never returns
PanicStoringCache(t) ==
    /\ pc[t] = "store_rest"
    /\ cache_lock' = [cache_lock EXCEPT !.writer = None, !.poisoned = TRUE]
    /\ pc' = [pc EXCEPT ![t] = "idle"]
    /\ Drop(t)
    /\ UNCHANGED <<env, ret, cached_stats, last_refresh,
                   refresh_poisoned, calls, probe>>

\* a thread panics while it holds the write guard of last_refresh
PanicStoringTime(t) ==
    /\ pc[t] = "store_time"
    /\ refresh_poisoned' = TRUE
    /\ pc' = [pc EXCEPT ![t] = "idle"]
    /\ Drop(t)
    /\ UNCHANGED <<env, ret, cached_stats, cache_lock, last_refresh,
                   calls, probe>>

----------------------------------------------------------------------------
(* Specifications *)

\* AnalyticsService::new() with no call under way
Fresh ==
    /\ registry = RegistryMap
    /\ appended = 0
    /\ op = [t \in Callers |-> "none"]
    /\ last = [t \in Callers |-> None]
    /\ checked_at = [t \in Callers |-> None]
    /\ entries = [t \in Callers |-> <<>>]
    /\ stats = [t \in Callers |-> None]
    /\ copy = [t \in Callers |-> None]
    /\ call = [t \in Callers |-> NoCall]
    /\ ret = None
    /\ cached_stats = None
    /\ cache_lock = [readers |-> {}, writer |-> None, poisoned |-> FALSE]
    /\ last_refresh = None
    /\ refresh_poisoned = FALSE
    /\ calls = 0

\* nothing asked of get_session_block_key
NoKeys == ts1 = 0 /\ ts2 = 0 /\ key1 = None /\ key2 = None

\* nothing to be priced
NoOrder ==
    [model |-> "", input_tokens |-> 0, output_tokens |-> 0,
     cache_creation_tokens |-> 0, cache_read_tokens |-> 0]
NoQuote == order = NoOrder /\ priced = None

\* no reader run
NoChart == max_age_days = None /\ chart = None

\* nothing given to parse_line
NoLine == raw_line = None /\ parse_result = None

\* no get_latest_response call
NoReply == max_chars = 0 /\ latest_response = None

NoProbe == NoKeys /\ NoQuote /\ NoChart /\ NoLine /\ NoReply

\* the service after construction, over the starting tree
Init ==
    /\ Fresh
    /\ NoProbe
    /\ files = ServiceTree
    /\ now = StartTime
    /\ pc = [t \in Callers |-> "idle"]

\* a step of caller t inside get_stats or refresh_stats, or its next call
Step(t) ==
    \/ CallGetStats(t)
    \/ CallRefreshStats(t)
    \/ NeedsRefresh(t)
    \/ ReadCache(t)
    \/ ReturnCached(t)
    \/ ReadAllEntries(t)
    \/ CalculateStats(t)
    \/ StoreCache(t)
    \/ StoreCacheRest(t)
    \/ StoreTime(t)

Next ==
    \/ \E t \in Callers : Step(t)
    \/ Tick
    \/ AppendLog

Spec == Init /\ [][Next]_vars

\* the service with threads that may panic inside a store, over logs that
\* stay as they are
NextPoison ==
    \/ \E t \in Callers : Step(t)
    \/ \E t \in Callers : PanicStoringCache(t)
    \/ \E t \in Callers : PanicStoringTime(t)
    \/ Tick

SpecPoison == Init /\ [][NextPoison]_vars

\* a step of caller t inside the call it has made
Progress(t) ==
    \/ NeedsRefresh(t)
    \/ ReadCache(t)
    \/ ReturnCached(t)
    \/ ReadAllEntries(t)
    \/ CalculateStats(t)
    \/ StoreCache(t)
    \/ StoreCacheRest(t)
    \/ StoreTime(t)

\* all sequences over S of length at most n
BoundedSeq(S, n) == UNION {[1..k -> S] : k \in 0..n}

\* the trees of an aggregation run: at most MaxLines lines of the catalog,
\* split over a file of each folder, either file the newer one
AggTrees ==
    {<<LogFile(FolderA, 1, SubSeq(x[1], 1, x[2])),
       LogFile(FolderB, x[3], SubSeq(x[1], x[2] + 1, Len(x[1])))>> :
        x \in {y \in BoundedSeq(LineCatalog, MaxLines) \X (0..MaxLines) \X {1, 2} :
                y[2] <= Len(y[1])}}

\* the clock of an aggregation run: ten past midnight, or the last
\* millisecond of the day
AggNows == {StartTime, At(1, 23, 59, 59, 999)}

\* one refresh_stats call up to its calculate_stats, over every tree
InitAgg ==
    /\ Fresh
    /\ NoProbe
    /\ files \in AggTrees
    /\ now \in AggNows
    /\ pc = [t \in Callers |-> IF t = "ui" THEN "read_entries" ELSE "idle"]

NextAgg == ReadAllEntries("ui") \/ CalculateStats("ui")

SpecAgg == InitAgg /\ [][NextAgg]_vars

\* the instants given to get_session_block_key: the first and last minute
\* of the hours at the edges of the blocks, on each day
KeyInstants ==
    {At(d, h, m, 0, 0) :
        d \in 0..MaxDay, h \in {0, 4, 5, 9, 10, 14, 15, 19, 20, 23}, m \in {0, 59}}

InitKey ==
    /\ Fresh
    /\ NoReply
    /\ files = ServiceTree
    /\ now = StartTime
    /\ pc = [t \in Callers |-> "idle"]
    /\ ts1 \in KeyInstants
    /\ ts2 \in KeyInstants
    /\ key1 = None
    /\ key2 = None
    /\ NoQuote
    /\ NoChart
    /\ NoLine

\* get_session_block_key applied to the two instants
ComputeKeys ==
    /\ key1 = None
    /\ key1' = Some(get_session_block_key(ts1))
    /\ key2' = Some(get_session_block_key(ts2))
    /\ UNCHANGED <<env, pc, op, locals, call, ret, shared, calls,
                   ts1, ts2, order, priced, max_age_days, chart, raw_line,
                   parse_result, max_chars, latest_response>>

NextKey == ComputeKeys

SpecKey == InitKey /\ [][NextKey]_vars

\* the model names to be priced: the names of the log lines of the model,
\* names of the sub-variants the price tables know, in either spelling and
\* in capitals, a name with the version before the family, an unknown name
\* and the empty name
PriceModels ==
    {"claude-opus-4-5-20251101", "claude-opus-4.5", "claude-opus-4-20250514",
     "claude-sonnet-4", "Claude-Sonnet-4", "claude-haiku-3-20240307",
     "claude-haiku-4-5-20251001", "CLAUDE-HAIKU-4.5", "claude-haiku-3.5",
     "claude-3-5-haiku-20241022", "gpt-4o", ""}

\* the token counts to be priced
PriceTokens == {0, 1, PerMillion}

InitPrice ==
    /\ Fresh
    /\ NoReply
    /\ files = ServiceTree
    /\ now = StartTime
    /\ pc = [t \in Callers |-> "idle"]
    /\ NoKeys
    /\ NoChart
    /\ NoLine
    /\ order \in [model : PriceModels, input_tokens : PriceTokens,
                   output_tokens : PriceTokens,
                   cache_creation_tokens : PriceTokens,
                   cache_read_tokens : PriceTokens]
    /\ priced = None

\* the order priced by analytics.rs (calculate_entry_cost over an entry with
\* the order's model and counts) and by pricing.rs (calculate_cost)
PriceOrder ==
    /\ priced = None
    /\ priced' =
           Some([entry_costs |-> get_model_costs(order.model),
                 entry_cost |-> calculate_entry_cost(order),
                 costs |-> pricing_get_model_costs(order.model),
                 cost |-> calculate_cost(order.model, order.input_tokens,
                                         order.output_tokens,
                                         order.cache_creation_tokens,
                                         order.cache_read_tokens)])
    /\ UNCHANGED <<env, pc, op, locals, call, ret, shared, calls,
                   ts1, ts2, key1, key2, order, max_age_days, chart, raw_line,
                   parse_result, max_chars, latest_response>>

NextPrice == PriceOrder

SpecPrice == InitPrice /\ [][NextPrice]_vars

\* the texts of the timestamp field: not RFC 3339, 00:05 UTC of day 1, and
\* the same instant spelled with an offset of two hours
TimestampTexts ==
    {[rfc3339 |-> FALSE, wall |-> 0, offset |-> 0],
     [rfc3339 |-> TRUE, wall |-> At(1, 0, 5, 0, 0), offset |-> 0],
     [rfc3339 |-> TRUE, wall |-> At(1, 2, 5, 0, 0), offset |-> 2 * MsPerHour]}

\* Option<T> over the values S
Option(S) == {None} \cup {Some(x) : x \in S}

\* the UsageData, MessageData and RawLogEntry values given to parse_line
UsageDatas ==
    [input_tokens : Option({7}), output_tokens : Option({3}),
     cache_creation_input_tokens : Option({0}),
     cache_read_input_tokens : Option({9})]
MessageDatas ==
    [role : Option({"assistant", "user"}), model : Option({"claude-sonnet-4"}),
     usage : Option(UsageDatas)]
RawLogEntries ==
    [entry_type : Option({"assistant", "user"}),
     timestamp : Option(TimestampTexts),
     session_id : Option({"s1"}),
     uuid : Option({"", "u1"}),
     message : Option(MessageDatas)]

\* the lines given to parse_line: read, not blank, of each kind of JSON
ParseLines ==
    [io_ok : {TRUE}, advances : {TRUE}, blank : {FALSE},
     json : {"malformed", "mistyped", "entry"}, raw : RawLogEntries]

InitParse ==
    /\ Fresh
    /\ NoReply
    /\ files = ServiceTree
    /\ now = StartTime
    /\ pc = [t \in Callers |-> "idle"]
    /\ NoKeys
    /\ NoQuote
    /\ NoChart
    /\ raw_line \in Option(ParseLines) \ {None}
    /\ parse_result = None

\* parse_line applied to the line, for the project of the first folder
ParseLine ==
    /\ parse_result = None
    /\ parse_result' = Some(parse_line(raw_line[1], RegistryMap[FolderA]))
    /\ UNCHANGED <<env, pc, op, locals, call, ret, shared, calls,
                   ts1, ts2, key1, key2, order, priced, max_age_days, chart,
                   raw_line, max_chars, latest_response>>

NextParse == ParseLine

SpecParse == InitParse /\ [][NextParse]_vars

\* further lines of the trees of a reader run.  Seen from StartTime:
\*   Stale      one millisecond before the cutoff of one day; carries the
\*              unique id of Old and Midnight
\*   Cutoff     the instant of the cutoff of one day
\*   Broken     text that is not JSON
\*   NotUtf8    bytes that are not UTF-8: the read fails, the reader goes on
\*   ReadError  the read fails and fails again at every attempt
LineStale ==
    AssistantLine(At(0, 0, 9, 59, 999), Some("u1"), "claude-sonnet-4",
                  Some(2), Some(1), None, None)
LineCutoff ==
    AssistantLine(At(0, 0, 10, 0, 0), Some("u4"), "claude-opus-4-5-20251101",
                  Some(3), Some(4), None, Some(2))
LineBroken == [LineOld EXCEPT !.json = "malformed"]
LineNotUtf8 == [LineOld EXCEPT !.io_ok = FALSE]
LineReadError == [LineOld EXCEPT !.io_ok = FALSE, !.advances = FALSE]

ReadCatalog ==
    {LineStale, LineCutoff, LineOld, LineMidnight, LineLastMs, LineTomorrow,
     LineBroken, LineNotUtf8, LineReadError}

\* the trees of a reader run: at most MaxLines lines of the catalog, split
\* over a file of each folder, either file the newer one, at most one of
\* them a file that File::open fails on
ReadTrees ==
    {<<[LogFile(FolderA, 1, SubSeq(x[1], 1, x[2])) EXCEPT !.readable = x[4] # 1],
       [LogFile(FolderB, x[3], SubSeq(x[1], x[2] + 1, Len(x[1])))
           EXCEPT !.readable = x[4] # 2]>> :
        x \in {y \in BoundedSeq(ReadCatalog, MaxLines) \X (0..MaxLines)
                        \X {1, 2} \X {0, 1, 2} :
                y[2] <= Len(y[1])}}

\* the `days` given to read_entries: none (read_all_entries), today, one day
ReadDays == {None, Some(0), Some(1)}

\* a run of read_entries, then get_chart_data's tables and calculate_stats
\* over the entries read
InitRead ==
    /\ Fresh
    /\ NoReply
    /\ NoKeys
    /\ NoQuote
    /\ NoLine
    /\ files \in ReadTrees
    /\ now = StartTime
    /\ max_age_days \in ReadDays
    /\ chart = None
    /\ pc = [t \in Callers |-> IF t = "ui" THEN "chart_read" ELSE "idle"]

\* mutant: get_chart_data's read notes the time in last_refresh
ReadEntries_marks_refresh(t) ==
    /\ pc[t] = "chart_read"
    /\ entries' = [entries EXCEPT
                      ![t] = read_entries(files, registry, max_age_days, now)]
    /\ last_refresh' = Some(now)
    /\ pc' = [pc EXCEPT ![t] = "chart_build"]
    /\ UNCHANGED <<env, op, last, checked_at, stats, copy, call, ret,
                   cached_stats, cache_lock, refresh_poisoned, calls, probe>>

\* let entries = self.usage_reader.read_entries(days)
ReadEntries(t) ==
    /\ pc[t] = "chart_read"
    /\ LET scan == scan_entries(files, registry, max_age_days, now)
       IN  /\ ~scan.hung
           /\ entries' = [entries EXCEPT ![t] = SortEntries(scan.entries)]
    /\ pc' = [pc EXCEPT ![t] = "chart_build"]
    /\ UNCHANGED <<env, op, last, checked_at, stats, copy, call, ret, shared,
                   calls, probe>>

\* get_chart_data after its read_entries
BuildChart(t) ==
    /\ pc[t] = "chart_build"
    /\ \E c \in chart_data(entries[t]) : chart' = Some(c)
    /\ pc' = [pc EXCEPT ![t] = "calculate"]
    /\ UNCHANGED <<env, op, locals, call, ret, shared, calls,
                   ts1, ts2, key1, key2, order, priced, max_age_days,
                   raw_line, parse_result, max_chars, latest_response>>

NextRead == ReadEntries("ui") \/ BuildChart("ui") \/ CalculateStats("ui")

SpecRead == InitRead /\ [][NextRead]_vars

\* the registry documents: none that can be used, or a projects object of
\* at most two of the project paths, iterated in either order
RegistryDocs ==
    {[state |-> st, projects |-> <<>>] :
        st \in {"missing", "unreadable", "malformed", "no_projects"}}
    \cup {[state |-> "projects", projects |-> ps] :
            ps \in {q \in BoundedSeq(ProjectPaths, 2) :
                       \A i, j \in 1..Len(q) : i # j => q[i] # q[j]}}

\* the trees of a registry run: a log file of one record in each of two
\* folders, either file the newer one
ProjectTrees ==
    {<<LogFile(x[1], 1, <<LineEdge>>), LogFile(x[2], x[3], <<LineRecent>>)>> :
        x \in {y \in FolderNames \X FolderNames \X {0, 2} : y[1] # y[2]}}

\* UsageReader::new() over every registry document, then one read of the
\* logs and its aggregation
InitProject ==
    /\ NoProbe
    /\ appended = 0
    /\ op = [t \in Callers |-> "none"]
    /\ last = [t \in Callers |-> None]
    /\ checked_at = [t \in Callers |-> None]
    /\ entries = [t \in Callers |-> <<>>]
    /\ stats = [t \in Callers |-> None]
    /\ copy = [t \in Callers |-> None]
    /\ call = [t \in Callers |-> NoCall]
    /\ ret = None
    /\ cached_stats = None
    /\ cache_lock = [readers |-> {}, writer |-> None, poisoned |-> FALSE]
    /\ last_refresh = None
    /\ refresh_poisoned = FALSE
    /\ calls = 0
    /\ registry \in {build_project_path_map(doc) : doc \in RegistryDocs}
    /\ files \in ProjectTrees
    /\ now = StartTime
    /\ pc = [t \in Callers |-> IF t = "ui" THEN "read_entries" ELSE "idle"]

NextProject == ReadAllEntries("ui") \/ CalculateStats("ui")

SpecProject == InitProject /\ [][NextProject]_vars

\* the `days` the dashboard asks get_chart_data for
ChartDays == {0, 1}

\* a caller enters get_chart_data(days)
CallGetChartData(t) ==
    /\ pc[t] = "idle"
    /\ calls < MaxCalls
    /\ calls' = calls + 1
    /\ call' = Begin(t)
    /\ pc' = [pc EXCEPT ![t] = "chart_read"]
    /\ op' = [op EXCEPT ![t] = "get_chart_data"]
    /\ \E d \in ChartDays : max_age_days' = Some(d)
    /\ chart' = None
    /\ UNCHANGED <<env, locals, ret, shared, ts1, ts2, key1, key2, order,
                   priced, raw_line, parse_result, max_chars, latest_response>>

\* get_chart_data: the four tables, and the ChartData returned
ReturnChart(t) ==
    /\ pc[t] = "chart_build"
    /\ \E c \in chart_data(entries[t]) :
           /\ chart' = Some(c)
           /\ ret' = Some(Outcome(t, c, "computed", {}))
    /\ pc' = [pc EXCEPT ![t] = "idle"]
    /\ Drop(t)
    /\ UNCHANGED <<env, shared, calls, ts1, ts2, key1, key2, order, priced,
                   max_age_days, raw_line, parse_result, max_chars, latest_response>>

\* the dashboard asks for charts while the tray asks for stats, the clock
\* advances and the assistant writes its logs
NextChart ==
    \/ CallGetChartData("ui")
    \/ ReadEntries("ui")
    \/ ReturnChart("ui")
    \/ Step("tray")
    \/ Tick
    \/ AppendLog

SpecChart == Init /\ [][NextChart]_vars

\* the log roots with no log file to be found: present and empty, missing,
\* unreadable (over nothing, or over the logs of the cache model)
EmptyRoots ==
    {[state |-> "present", files |-> <<>>],
     [state |-> "missing", files |-> <<>>],
     [state |-> "unreadable", files |-> <<>>],
     [state |-> "unreadable", files |-> ServiceTree]}

\* the service over a root in which no log file is found
InitEmpty ==
    /\ Fresh
    /\ NoProbe
    /\ files \in {filter_map_ok(glob(root)) : root \in EmptyRoots}
    /\ now = StartTime
    /\ pc = [t \in Callers |-> "idle"]

NextEmpty ==
    \/ CallGetChartData("ui")
    \/ ReadEntries("ui")
    \/ ReturnChart("ui")
    \/ Step("tray")
    \/ Tick

SpecEmpty == InitEmpty /\ [][NextEmpty]_vars

\* a log line of the given type whose message has the given role and content
ResponseLine(entry_type, role, content) ==
    [io_ok |-> TRUE, advances |-> TRUE, blank |-> FALSE, json |-> "entry",
     raw |-> [entry_type |-> Some(entry_type),
              timestamp |-> Some([rfc3339 |-> TRUE, wall |-> StartTime,
                                  offset |-> 0]),
              session_id |-> Some("s1"),
              uuid |-> None,
              message |-> Some([role |-> Some(role),
                                model |-> Some("claude-sonnet-4"),
                                usage |-> None,
                                content |-> content])]]

\* content blocks: {"type": "text", "text": ...} and {"type": "thinking", ...}
TextBlock(cs) == [block_type |-> "text", text |-> Some(cs)]
ThinkingBlock == [block_type |-> "thinking", text |-> None]

\* an assistant line saying the given text in one block
Said(cs) == ResponseLine("assistant", "assistant", Some(<<TextBlock(cs)>>))

\* the lines of the trees of a get_latest_response run: assistant texts of
\* two and three letters, with spaces around, in two blocks around a
\* thinking block, with a two-byte character last or first; and lines
\* with nothing to show: a blank text, thinking only, no content, a user
\* turn, text that is not JSON, an empty line, bytes that are not UTF-8,
\* a read that keeps failing
ReplyCatalog ==
    {Said(<<"a", "b">>),
     Said(<<"a", "b", "c">>),
     Said(<<" ", "a", "b", " ">>),
     ResponseLine("assistant", "assistant",
                  Some(<<TextBlock(<<"a">>), ThinkingBlock, TextBlock(<<"b">>)>>)),
     Said(<<"a", "U+00E9">>),
     Said(<<"U+00E9", "a", "b">>),
     Said(<<" ", " ">>),
     ResponseLine("assistant", "assistant", Some(<<ThinkingBlock>>)),
     ResponseLine("assistant", "assistant", None),
     ResponseLine("user", "user", Some(<<TextBlock(<<"a", "b">>)>>)),
     [Said(<<"a", "b">>) EXCEPT !.json = "malformed"],
     [Said(<<"a", "b">>) EXCEPT !.blank = TRUE],
     [Said(<<"a", "b">>) EXCEPT !.io_ok = FALSE],
     [Said(<<"a", "b">>) EXCEPT !.io_ok = FALSE, !.advances = FALSE]}

\* recently modified files with nothing to show: one that does not open, an
\* empty one, and three of one line
Fillers ==
    <<[LogFile(FolderA, 14, <<Said(<<"a", "b">>)>>) EXCEPT !.readable = FALSE],
      LogFile(FolderA, 13, <<>>),
      LogFile(FolderA, 12, <<ResponseLine("user", "user",
                                          Some(<<TextBlock(<<"a">>)>>))>>),
      LogFile(FolderA, 11, <<ResponseLine("assistant", "assistant",
                                          Some(<<ThinkingBlock>>))>>),
      LogFile(FolderA, 10, <<Said(<<" ">>)>>)>>

\* the trees of a get_latest_response run: none, three, four or all of the
\* fillers, then two older files, of at most two lines and of at most one,
\* either of them the newer
ReplyTrees ==
    {SubSeq(Fillers, 1, x[1])
        \o <<LogFile(FolderA, x[2], x[3]), LogFile(FolderB, 2, x[4])>> :
        x \in {0, 3, 4, 5} \X {1, 3} \X BoundedSeq(ReplyCatalog, 2)
                  \X BoundedSeq(ReplyCatalog, 1)}

\* the lengths asked for
ReplyMaxChars == {2, 3}

InitReply ==
    /\ Fresh
    /\ NoKeys
    /\ NoQuote
    /\ NoChart
    /\ NoLine
    /\ files \in ReplyTrees
    /\ now = StartTime
    /\ pc = [t \in Callers |-> "idle"]
    /\ max_chars \in ReplyMaxChars
    /\ latest_response = None

\* reader.get_latest_response(max_chars)
GetLatestResponse ==
    /\ latest_response = None
    /\ latest_response' = Some(get_latest_response(files, max_chars))
    /\ UNCHANGED <<env, pc, op, locals, call, ret, shared, calls,
                   ts1, ts2, key1, key2, order, priced, max_age_days, chart,
                   raw_line, parse_result, max_chars>>

NextReply == GetLatestResponse

SpecReply == InitReply /\ [][NextReply]_vars

----------------------------------------------------------------------------
(* Properties of one aggregation pass (SpecAgg) *)

\* the pass of the aggregation run has read the tree / has computed its stats
AggRead == pc["ui"] \in {"calculate", "lock_cache"}
AggDone == pc["ui"] = "lock_cache"

RECURSIVE SumTo(_, _)
\* f[1] + ... + f[n]
SumTo(f, n) == IF n = 0 THEN 0 ELSE f[n] + SumTo(f, n - 1)

\* the sum of a field over the entries whose index is in the set `which`
FieldSum(es, field, which) ==
    SumTo([i \in 1..Len(es) |-> IF i \in which THEN es[i][field] ELSE 0],
          Len(es))

\* the sum of the entry costs over the entries whose index is in `which`
CostSum(es, which) ==
    SumTo([i \in 1..Len(es) |->
              IF i \in which THEN Units(calculate_entry_cost(es[i])) ELSE 0],
          Len(es))

\* the places <<file, line>> of the tree whose line parses to a usage record
Records(tree) ==
    {x \in (1..Len(tree)) \X (1..MaxLines + 1) :
        /\ x[2] <= Len(tree[x[1]].lines)
        /\ tree[x[1]].readable
        /\ tree[x[1]].lines[x[2]].io_ok
        /\ ~tree[x[1]].lines[x[2]].blank
        /\ parse_line(tree[x[1]].lines[x[2]], "") # None}

\* the unique id of the record at a place of the tree ("" when it has none)
IdAt(tree, x) == parse_line(tree[x[1]].lines[x[2]], "")[1].uuid

\* C1: the sequence read_entries returns holds no two records with the same
\* non-empty unique id, whichever files the lines are in and whichever file
\* is read first: every non-empty id of the tree occurs exactly once, every
\* record without an id is kept; and calculate_stats over that sequence
\* counts each of them once in total_messages_count and in every token and
\* cost total.
DedupAcrossFiles ==
    LET es == entries["ui"]
        all == 1..Len(es)
        ids == {IdAt(files, x) : x \in Records(files)} \ {""}
        anonymous == {x \in Records(files) : IdAt(files, x) = ""}
        kept == Cardinality(ids) + Cardinality(anonymous)
    IN  /\ AggRead =>
            /\ \A i, j \in all : i # j /\ es[i].uuid = es[j].uuid => es[i].uuid = ""
            /\ \A u \in ids : Cardinality({i \in all : es[i].uuid = u}) = 1
            /\ Len(es) = kept
        /\ AggDone =>
            LET st == stats["ui"][1]
            IN  /\ st.total_messages_count = kept
                /\ st.total_input_tokens = FieldSum(es, "input_tokens", all)
                /\ st.total_output_tokens = FieldSum(es, "output_tokens", all)
                /\ st.total_cache_creation_tokens =
                       FieldSum(es, "cache_creation_tokens", all)
                /\ st.total_cache_read_tokens =
                       FieldSum(es, "cache_read_tokens", all)
                /\ st.total_cost = CostSum(es, all)

\* C1, the case: the same non-empty id is in both files of the tree, and the
\* pass has counted fewer messages than the tree has records
DedupAcrossFiles_witness ==
    /\ AggDone
    /\ \E x, y \in Records(files) :
          /\ x[1] # y[1]
          /\ IdAt(files, x) # ""
          /\ IdAt(files, x) = IdAt(files, y)
    /\ stats["ui"][1].total_messages_count < Cardinality(Records(files))
    /\ stats["ui"][1].total_messages_count > 0

\* a line that carries a non-empty unique id
HasId(line) ==
    /\ line.io_ok /\ ~line.blank /\ line.json = "entry"
    /\ line.raw.uuid # None
    /\ line.raw.uuid[1] # ""

\* the tree with a copy of line l of file f put in file g as its line k
InsertCopy(tree, f, l, g, k) ==
    [tree EXCEPT ![g].lines = SubSeq(@, 1, k - 1) \o <<tree[f].lines[l]>>
                                  \o SubSeq(@, k, Len(@))]

\* the place of file f of the tree in the order read_entries reads the files
ScanRank(tree, f) ==
    CHOOSE i \in 1..Len(tree) : find_jsonl_files(tree)[i].folder = tree[f].folder

\* the copy put at line k of file g is read after line l of file f
ReadAfter(tree, f, l, g, k) ==
    IF g = f THEN k > l ELSE ScanRank(tree, g) > ScanRank(tree, f)

\* the ways to copy a line with a non-empty id to a place of the tree
Copies(tree) ==
    {c \in (1..Len(tree)) \X (1..MaxLines) \X (1..Len(tree)) \X (1..MaxLines + 1) :
        /\ c[2] <= Len(tree[c[1]].lines)
        /\ c[4] <= Len(tree[c[3]].lines) + 1
        /\ HasId(tree[c[1]].lines[c[2]])}

\* a whole pass over a tree at clock time t
StatsOf(tree, t) == calculate_stats(read_all_entries(tree, registry, t), t)

OnDateOfNow ==
    {i \in 1..Len(entries["ui"]) : DayOf(entries["ui"][i].timestamp) = DayOf(now)}

\* C7, as stated: the today totals of a pass are those of the records whose
\* timestamp is on the UTC calendar date of the pass's `now`, no record of
\* the date before and no record of the date after among them.
TodayIsTheDateOfNow ==
    AggDone =>
        LET es == entries["ui"]
            st == stats["ui"][1]
        IN  /\ st.today_messages = Cardinality(OnDateOfNow)
            /\ st.today_messages_count = Cardinality(OnDateOfNow)
            /\ st.today_input_tokens = FieldSum(es, "input_tokens", OnDateOfNow)
            /\ st.today_output_tokens = FieldSum(es, "output_tokens", OnDateOfNow)
            /\ st.today_cost = CostSum(es, OnDateOfNow)
            /\ st.today_session_count =
                   Cardinality({get_session_block_key(es[i].timestamp) :
                                   i \in OnDateOfNow})

\* the entries of the pass in its burn window: not more than 30 minutes
\* before `now`
InWindow ==
    {i \in 1..Len(entries["ui"]) :
        now - entries["ui"][i].timestamp <= BurnMinutes * MsPerMinute}

\* whole minutes from a record to `now`, at least 1 (a record stamped after
\* `now` is less than a minute old)
MinutesAgo(timestamp) ==
    IF now - timestamp >= MsPerMinute THEN (now - timestamp) \div MsPerMinute
    ELSE 1

\* C9: the burn accumulators of a pass are the sums over the records not
\* more than 30 minutes old, so an older record adds nothing to them; when
\* no record is in the window both rates are exactly 0; and no rate is ever
\* a quotient by zero.
BurnWindowOnly ==
    AggDone =>
        LET es == entries["ui"]
            st == stats["ui"][1]
            acc == PassEnd(es, now)
        IN  /\ acc.burn_window_tokens
                   = FieldSum(es, "input_tokens", InWindow)
                     + FieldSum(es, "output_tokens", InWindow)
            /\ acc.burn_window_cost = CostSum(es, InWindow)
            /\ st.tokens_per_minute.den > 0
            /\ st.cost_per_hour.den > 0
            /\ InWindow = {} =>
                   /\ st.tokens_per_minute = Zero
                   /\ st.cost_per_hour = Zero
            /\ st.tokens_per_minute.num > 0 => InWindow # {}

\* C9, the case: the pass has read records, all of them more than 30
\* minutes old, and both rates are 0
BurnWindowOnly_witness ==
    /\ AggDone
    /\ Len(entries["ui"]) >= 2
    /\ InWindow = {}
    /\ stats["ui"][1].total_input_tokens > 0
    /\ stats["ui"][1].tokens_per_minute = Zero
    /\ stats["ui"][1].cost_per_hour = Zero

\* the largest / the smallest of a non-empty finite set of integers
Largest(S) == CHOOSE x \in S : \A y \in S : y <= x
Smallest(S) == CHOOSE x \in S : \A y \in S : x <= y

\* C10, as amended: over the output of read_all_entries the burn-rate
\* divisor is the maximum, over the records of the burn window, of the
\* whole minutes from the record to `now` floored at 1 (the oldest record
\* of the window sets it), and the rates are the window sums over it.
BurnDivisorIsMaximum ==
    AggDone /\ InWindow # {} =>
        LET es == entries["ui"]
            st == stats["ui"][1]
            divisor == Largest({MinutesAgo(es[i].timestamp) : i \in InWindow})
            tokens == FieldSum(es, "input_tokens", InWindow)
                      + FieldSum(es, "output_tokens", InWindow)
        IN  /\ PassEnd(es, now).burn_window_minutes = divisor
            /\ st.tokens_per_minute.num * divisor = tokens * st.tokens_per_minute.den
            /\ st.cost_per_hour.num * divisor
                   = CostSum(es, InWindow) * 60 * st.cost_per_hour.den

\* C10, the case: two records of the window are a different number of
\* minutes old, and the divisor is the larger number
BurnDivisorIsMaximum_witness ==
    /\ AggDone
    /\ \E i, j \in InWindow :
          MinutesAgo(entries["ui"][i].timestamp)
              < MinutesAgo(entries["ui"][j].timestamp)
    /\ PassEnd(entries["ui"], now).burn_window_minutes
           = Largest({MinutesAgo(entries["ui"][i].timestamp) : i \in InWindow})
    /\ stats["ui"][1].tokens_per_minute.num > 0

\* C10, as stated: the burn-rate divisor is the minimum, over the records of
\* the burn window, of the whole minutes from the record to `now` floored
\* at 1
BurnDivisorIsMinimum ==
    AggDone /\ InWindow # {} =>
        PassEnd(entries["ui"], now).burn_window_minutes
            = Smallest({MinutesAgo(entries["ui"][i].timestamp) : i \in InWindow})

----------------------------------------------------------------------------
(* Properties of the session block key (SpecKey) *)

\* C8: get_session_block_key gives each instant one key, which names its
\* UTC day and its hour / 5: two instants have the same key exactly when
\* they are on the same day in the same block.  So two instants of one day
\* whose hours are in the same block share a key, and two instants 5 hours
\* 1 minute or more apart never do, within a day or across midnight.
BlockKeyIsDayAndBlock ==
    key1 # None =>
        LET same_day == DayOf(ts1) = DayOf(ts2)
            same_block == Hour(ts1) \div BlockHours = Hour(ts2) \div BlockHours
            apart == IF ts1 >= ts2 THEN ts1 - ts2 ELSE ts2 - ts1
        IN  /\ key1 = Some(get_session_block_key(ts1))
            /\ key2 = Some(get_session_block_key(ts2))
            /\ (key1 = key2) <=> (same_day /\ same_block)
            /\ apart >= BlockHours * MsPerHour + MsPerMinute => key1 # key2

\* C8, the case: two instants of one day 4 hours 59 minutes apart have got
\* the same key
BlockKeyIsDayAndBlock_witness ==
    /\ key1 # None
    /\ ts2 - ts1 = (BlockHours - 1) * MsPerHour + 59 * MsPerMinute
    /\ DayOf(ts1) = DayOf(ts2)
    /\ key1 = key2

----------------------------------------------------------------------------
(* Properties of the stats cache (Spec, SpecFair, SpecPoison) *)

\* the values the clock takes
ClockValues == {StartTime + k * TickMs : k \in 0..MaxTicks}

RECURSIVE TreesAfter(_)
\* the trees the logs can be after n appends
TreesAfter(n) ==
    IF n = 0 THEN {ServiceTree}
    ELSE {AppendTo(tree, n - 1, t) : tree \in TreesAfter(n - 1), t \in ClockValues}

\* every AnalyticsStats one pass of calculate_stats over what one
\* read_all_entries returns can be
Wholes ==
    {calculate_stats(read_all_entries(tree, RegistryMap, t), t) :
        tree \in UNION {TreesAfter(n) : n \in 0..MaxAppends}, t \in ClockValues}

\* the call that returned last was a call of `method`
Returned(method) == ret # None /\ ret[1].method = method

\* no call is under way
Idle == \A t \in Callers : pc[t] = "idle"

\* caller t returns from its call in this step
Returns(t) == pc[t] # "idle" /\ pc'[t] = "idle"

Threshold == StaleSeconds * MsPerSecond

\* a value computed during the call that returned it
ComputedInCall(r) ==
    /\ r.via = "computed"
    /\ r.value \in Wholes
    /\ r.value.last_updated # None
    /\ r.value.last_updated[1] >= r.since
    /\ r.value.last_updated[1] <= r.at

\* a call that ran alone has left its value in the cache and the time of its
\* return in last_refresh, for as long as no other call is made
StoredWhatItReturned(r) ==
    r.solo /\ Idle => cached_stats = Some(r.value) /\ last_refresh = Some(r.at)

\* get_stats answers from the cache
ServedFromCache(r) == r.via = "cache"

\* C2, as amended: get_stats returns the cached stats without recomputing
\* exactly when a value is cached and at most 30 seconds have passed since
\* last_refresh was set (a cache exactly 30 seconds old is still served);
\* when more than 30 seconds have passed, or nothing is cached, it
\* recomputes, stores the new stats and returns them.  And a get_stats that
\* is served from the cache with no other call under way returns what the
\* get_stats before it returned, last_updated included.
ServedUpToThreshold ==
    /\ [](Returned("get_stats") =>
            /\ ServedFromCache(ret[1]) <=>
                   /\ ret[1].cached
                   /\ ret[1].elapsed # None
                   /\ ret[1].elapsed[1] <= Threshold
            /\ ~ServedFromCache(ret[1]) =>
                   /\ ComputedInCall(ret[1])
                   /\ StoredWhatItReturned(ret[1]))
    /\ [][\A t \in Callers :
            /\ ReturnCached(t)
            /\ call[t].solo
            /\ Returned("get_stats")
            /\ ServedFromCache(ret[1]) \/ ret[1].solo
            => ret'[1].value = ret[1].value]_vars

\* C2, the case: a get_stats has found the cache exactly 30 seconds old and
\* has returned it
ServedUpToThreshold_witness ==
    /\ Returned("get_stats")
    /\ ret[1].elapsed = Some(Threshold)
    /\ ServedFromCache(ret[1])
    /\ ret[1].value.last_updated[1] < ret[1].since

\* C2, as stated: get_stats returns the cached stats exactly when a value is
\* cached and less than 30 seconds have passed; once the 30 seconds are
\* reached it recomputes
ServedBelowThreshold ==
    Returned("get_stats") =>
        (ServedFromCache(ret[1]) <=>
            /\ ret[1].cached
            /\ ret[1].elapsed # None
            /\ ret[1].elapsed[1] < Threshold)

\* C3: refresh_stats never looks at the age of the cache: every call
\* computes anew; run alone it leaves the value it returns in the cache and
\* the time in last_refresh; and a get_stats made next, alone, that reads
\* the clock less than 30 seconds after the refresh returned, returns that
\* same value from the cache.
RefreshRecomputesAndStores ==
    /\ [](Returned("refresh_stats") =>
            /\ ret[1].found = "unread"
            /\ ret[1].elapsed = None
            /\ ComputedInCall(ret[1])
            /\ StoredWhatItReturned(ret[1]))
    /\ [][\A t \in Callers :
            /\ Returns(t)
            /\ op[t] = "get_stats"
            /\ call[t].solo
            /\ Returned("refresh_stats")
            /\ ret[1].solo
            /\ checked_at[t] # None
            /\ checked_at[t][1] - ret[1].at < Threshold
            => /\ ServedFromCache(ret'[1])
               /\ ret'[1].value = ret[1].value]_vars

\* C3, the case: a refresh_stats made while the cache was less than 30
\* seconds old has computed anew and left its value in the cache
RefreshRecomputesAndStores_witness ==
    /\ Returned("refresh_stats")
    /\ calls = 2
    /\ now = StartTime + TickMs
    /\ ret[1].since = now
    /\ ret[1].solo
    /\ Idle
    /\ ret[1].value.last_updated = Some(now)
    /\ cached_stats = Some(ret[1].value)
    /\ last_refresh = Some(now)

\* the steps a caller at this position has yet to take, at most
StepsLeft(position) ==
    CASE position = "idle" -> 0
      [] position = "store_time" -> 1
      [] position = "clone_rest" -> 1
      [] position = "store_rest" -> 2
      [] position = "lock_cache" -> 3
      [] position = "calculate" -> 4
      [] position = "read_entries" -> 5
      [] position = "read_cache" -> 6
      [] position = "needs_refresh" -> 7

\* caller t holds a lock of the cache and its next step waits for nothing
HoldsAndRuns(t) ==
    /\ \/ pc[t] = "clone_rest" /\ t \in cache_lock.readers
       \/ pc[t] = "store_rest" /\ cache_lock.writer = Some(t)
    /\ ENABLED Progress(t)

PoisonIsCacheMiss ==
    /\ [](ret # None =>
            /\ ret[1].value \in Wholes
            /\ ret[1].found = "poisoned" \/ ret[1].skipped # {} =>
                   ComputedInCall(ret[1]))
    /\ [][\A t \in Callers :
            /\ pc[t] = "needs_refresh" /\ pc'[t] # "needs_refresh"
               /\ refresh_poisoned => pc'[t] = "read_entries"
            /\ pc[t] = "read_cache" /\ pc'[t] # "read_cache"
               /\ cache_lock.poisoned => pc'[t] = "read_entries"]_vars
    /\ [][cache_lock.poisoned => cached_stats' = cached_stats]_vars
    /\ [][refresh_poisoned => last_refresh' = last_refresh]_vars
    /\ [](\A t \in Callers :
            /\ pc[t] \in {"read_cache", "lock_cache"}
            /\ cache_lock.poisoned
            /\ cache_lock.readers = {}
            => ENABLED Progress(t))

\* C5, the case: a get_stats has met a poisoned cache lock on its read and
\* on its store, and has returned stats it computed
PoisonIsCacheMiss_witness ==
    /\ Returned("get_stats")
    /\ ret[1].found = "poisoned"
    /\ ret[1].elapsed # None
    /\ ret[1].skipped = {"cached_stats"}
    /\ ComputedInCall(ret[1])
    /\ cache_lock.poisoned

----------------------------------------------------------------------------
(* Properties of the price tables (SpecPrice) *)

\* the order names an Opus 4.5 model, in either spelling
IsOpus45 == Contains(order.model, "opus-4-5") \/ Contains(order.model, "opus-4.5")

\* C11, as stated: the aggregation engine prices a record by the schedule of
\* the most specific name its model holds (an Opus 4.5 name at input 5 and
\* output 25 dollars per million, not at the generic Opus rates), so that
\* calculate_entry_cost and pricing.rs calculate_cost give the same cost for
\* every model name and all token counts.
EngineFollowsPricing ==
    priced # None =>
        /\ IsOpus45 => /\ priced[1].entry_costs.input = 1000
                       /\ priced[1].entry_costs.output = 5000
        /\ priced[1].entry_cost = priced[1].cost

\* the six schedules of pricing.rs, in CostUnits per million tokens
Opus45Rates == TokenCosts(1000, 5000, 100, 1250)
OpusRates == TokenCosts(3000, 15000, 300, 3750)
Haiku45Rates == TokenCosts(200, 1000, 20, 250)
Haiku35Rates == TokenCosts(160, 800, 16, 200)
HaikuRates == TokenCosts(50, 250, 6, 60)
DefaultRates == TokenCosts(600, 3000, 60, 750)

\* the order's model name holds the pattern, whatever the case of its letters
Holds(pat) == Contains(order.model, pat)

\* C14: pricing.rs get_model_costs gives every name a schedule, the one of
\* the first pattern the name holds, letters compared without case, in the
\* order Opus 4.5, Opus, Haiku 4.5, Haiku 3.5, Haiku; a name holding none of
\* them (an unknown name, the empty name, a Sonnet name) gets the default.
PricingDecidesByFirstMatch ==
    priced # None =>
        LET costs == priced[1].costs
        IN  /\ costs \in {Opus45Rates, OpusRates, Haiku45Rates, Haiku35Rates,
                          HaikuRates, DefaultRates}
            /\ Holds("opus-4-5") \/ Holds("opus-4.5") => costs = Opus45Rates
            /\ /\ Holds("opus")
               /\ ~(Holds("opus-4-5") \/ Holds("opus-4.5"))
               => costs = OpusRates
            /\ /\ Holds("haiku-4-5") \/ Holds("haiku-4.5")
               /\ ~Holds("opus")
               => costs = Haiku45Rates
            /\ /\ Holds("haiku-3-5") \/ Holds("haiku-3.5")
               /\ ~(Holds("haiku-4-5") \/ Holds("haiku-4.5"))
               /\ ~Holds("opus")
               => costs = Haiku35Rates
            /\ /\ Holds("haiku")
               /\ ~(Holds("haiku-3-5") \/ Holds("haiku-3.5"))
               /\ ~(Holds("haiku-4-5") \/ Holds("haiku-4.5"))
               /\ ~Holds("opus")
               => costs = HaikuRates
            /\ ~Holds("opus") /\ ~Holds("haiku") => costs = DefaultRates
            /\ order.model = "claude-opus-4-5-20251101" => costs = Opus45Rates
            /\ order.model = "claude-opus-4-20250514" => costs = OpusRates
            /\ order.model = "CLAUDE-HAIKU-4.5" => costs = Haiku45Rates
            /\ order.model = "claude-haiku-3.5" => costs = Haiku35Rates
            /\ order.model = "claude-3-5-haiku-20241022" => costs = HaikuRates
            /\ order.model = "claude-haiku-3-20240307" => costs = HaikuRates
            /\ order.model \in {"claude-sonnet-4", "Claude-Sonnet-4", "gpt-4o", ""}
               => costs = DefaultRates

\* a name in capitals holding both a sub-variant pattern and its family
\* pattern has been given the sub-variant's schedule
PricingDecidesByFirstMatch_witness ==
    /\ priced # None
    /\ order.model = "CLAUDE-HAIKU-4.5"
    /\ Holds("haiku")
    /\ priced[1].costs = Haiku45Rates

\* the whole millions and the remainder of a token count
Millions(tokens) == tokens \div PerMillion
Rest(tokens) == tokens % PerMillion

\* the sum over the four buckets of count * rate, each bucket at its own
\* rate, as an amount
BucketSum(o, costs) ==
    LET small == Rest(o.input_tokens) * costs.input
                 + Rest(o.output_tokens) * costs.output
                 + Rest(o.cache_read_tokens) * costs.cache_read
                 + Rest(o.cache_creation_tokens) * costs.cache_write
        large == Millions(o.input_tokens) * costs.input
                 + Millions(o.output_tokens) * costs.output
                 + Millions(o.cache_read_tokens) * costs.cache_read
                 + Millions(o.cache_creation_tokens) * costs.cache_write
    IN  [mega |-> large + small \div PerMillion, units |-> small % PerMillion]

\* an order of a million input and a million output tokens, no cache tokens
MillionEach ==
    /\ order.input_tokens = PerMillion
    /\ order.output_tokens = PerMillion
    /\ order.cache_creation_tokens = 0
    /\ order.cache_read_tokens = 0

\* C15: the cost of a record is the sum over its four buckets of
\* tokens / 1,000,000 times the rate of the bucket (cache-creation tokens at
\* the cache-write rate), in pricing.rs and in analytics.rs alike, each with
\* its own schedule; a million input and a million output tokens cost 18.0
\* dollars for claude-sonnet-4 and 1.50 for claude-haiku-3-20240307, and no
\* tokens cost nothing.
CostIsSumOfBuckets ==
    priced # None =>
        /\ priced[1].cost = BucketSum(order, priced[1].costs)
        /\ priced[1].entry_cost = BucketSum(order, priced[1].entry_costs)
        /\ MillionEach /\ order.model = "claude-sonnet-4"
           => /\ priced[1].cost = [mega |-> 3600, units |-> 0]
              /\ priced[1].entry_cost = [mega |-> 3600, units |-> 0]
        /\ MillionEach /\ order.model = "claude-haiku-3-20240307"
           => /\ priced[1].cost = [mega |-> 300, units |-> 0]
              /\ priced[1].entry_cost = [mega |-> 300, units |-> 0]
        /\ /\ order.input_tokens = 0
           /\ order.output_tokens = 0
           /\ order.cache_creation_tokens = 0
           /\ order.cache_read_tokens = 0
           => priced[1].cost = NoCost /\ priced[1].entry_cost = NoCost

\* a million tokens in one cache bucket and one token in the other have
\* been priced for an Opus model, where the two cache rates differ
CostIsSumOfBuckets_witness ==
    /\ priced # None
    /\ order.model = "claude-opus-4-20250514"
    /\ order.cache_read_tokens = PerMillion
    /\ order.cache_creation_tokens = 1
    /\ priced[1].cost.mega >= 300
    /\ priced[1].cost.units = Rest(order.input_tokens) * 3000
                              + Rest(order.output_tokens) * 15000 + 3750

----------------------------------------------------------------------------
(* Properties of parse_line (SpecParse) *)

\* the line given to parse_line has everything a record needs
HasAllOfARecord ==
    LET raw == raw_line[1].raw
    IN  /\ raw_line[1].json = "entry"
        /\ raw.entry_type = Some("assistant")
        /\ raw.message # None
        /\ raw.message[1].role = Some("assistant")
        /\ raw.message[1].usage # None
        /\ raw.message[1].model # None
        /\ raw.timestamp # None
        /\ raw.timestamp[1].rfc3339

\* a token count of the usage object, 0 when the field is absent
CountOr0(field) ==
    LET usage == raw_line[1].raw.message[1].usage[1]
    IN  IF usage[field] = None THEN 0 ELSE usage[field][1]

\* C16: parse_line yields a record only for a line that is a JSON log entry
\* of type assistant whose message has the role assistant, a usage object
\* and a model, and whose timestamp is RFC 3339; every other line yields
\* None; a token count absent from the usage object is 0 in the record.
ParseLineNeedsAll ==
    parse_result # None =>
        /\ parse_result[1] # None <=> HasAllOfARecord
        /\ parse_result[1] # None =>
               /\ parse_result[1][1].input_tokens = CountOr0("input_tokens")
               /\ parse_result[1][1].output_tokens = CountOr0("output_tokens")
               /\ parse_result[1][1].cache_creation_tokens =
                      CountOr0("cache_creation_input_tokens")
               /\ parse_result[1][1].cache_read_tokens =
                      CountOr0("cache_read_input_tokens")
               /\ parse_result[1][1].model = raw_line[1].raw.message[1].model[1]
               /\ parse_result[1][1].timestamp = At(1, 0, 5, 0, 0)

\* a line with no token count at all and no unique id, its timestamp
\* spelled with an offset, has become a record
ParseLineNeedsAll_witness ==
    /\ parse_result # None
    /\ parse_result[1] # None
    /\ raw_line[1].raw.timestamp[1].offset # 0
    /\ raw_line[1].raw.uuid = None
    /\ raw_line[1].raw.message[1].usage[1] =
           [input_tokens |-> None, output_tokens |-> None,
            cache_creation_input_tokens |-> None,
            cache_read_input_tokens |-> None]
    /\ total_tokens(parse_result[1][1]) = 0

----------------------------------------------------------------------------
(* Properties of a reader run (SpecRead) *)

\* read_entries has returned / the chart and the stats have been computed
ReadDone == pc["ui"] # "chart_read"
ViewsDone == pc["ui"] = "lock_cache"

\* the sum of the costs of a slice of the chart
SliceCost(slice) == SumTo([i \in 1..Len(slice) |-> slice[i].cost], Len(slice))

Sub(es, S) ==
    LET F[n \in 0..Len(es)] ==
            IF n = 0 THEN <<>>
            ELSE IF n \in S THEN Append(F[n - 1], es[n]) ELSE F[n - 1]
    IN  F[Len(es)]

\* the totals of calculate_stats that the claim of additivity is about
Totals(es) ==
    LET st == calculate_stats(es, now)
    IN  <<st.total_cost, st.total_input_tokens, st.total_output_tokens,
          st.total_cache_creation_tokens, st.total_cache_read_tokens,
          st.total_messages_count>>

Unusable(l) ==
    \/ ~l.io_ok
    \/ ~l.blank /\ parse_line(l, "") = None

\* the tree without the files that cannot be opened and without the lines
\* that cannot be read or parsed
WithoutUnusable(tree) ==
    LET Usable(l) == ~Unusable(l)
        Opens(f) == f.readable
        Cleaned == [i \in 1..Len(tree) |->
                       [tree[i] EXCEPT !.lines = SelectSeq(@, Usable)]]
    IN  SelectSeq(Cleaned, Opens)

\* C17, as stated: a file that cannot be opened and a line that cannot be
\* read or parsed do not stop the scan: read_entries returns, and returns
\* the records it returns when that file or line is absent.
UnusableInputIsSkipped ==
    /\ pc["ui"] = "chart_read" =>
           ~scan_entries(files, registry, max_age_days, now).hung
    /\ ReadDone =>
           entries["ui"] =
               read_entries(WithoutUnusable(files), registry, max_age_days, now)

\* the cutoff of the reader run, if it has one
Cutoff ==
    IF max_age_days = None THEN None
    ELSE Some(now - max_age_days[1] * MsPerDay)

\* a line that is a record older than the cutoff
Aged(l) ==
    /\ l.io_ok /\ ~l.blank
    /\ parse_line(l, "") # None
    /\ Cutoff # None
    /\ parse_line(l, "")[1].timestamp < Cutoff[1]

\* the tree without the records older than the cutoff
WithoutAged(tree) ==
    LET Young(l) == ~Aged(l)
    IN  [i \in 1..Len(tree) |-> [tree[i] EXCEPT !.lines = SelectSeq(@, Young)]]

\* C18: read_entries with max_age_days = d returns the records not older
\* than now minus d days, a record at the very cutoff among them, with the
\* duplicates among those records dropped as if the older records were not
\* in the files (an older record does not make its id seen); with no
\* max_age_days no record is dropped for its age: every record is returned,
\* or a record with its id is.
AgeFilterBeforeDedup ==
    ReadDone =>
        /\ entries["ui"] = read_entries(WithoutAged(files), registry, None, now)
        /\ Cutoff # None =>
               \A i \in 1..Len(entries["ui"]) :
                   entries["ui"][i].timestamp >= Cutoff[1]
        /\ \A x \in Records(files) :
               LET e == parse_line(files[x[1]].lines[x[2]], "")[1]
               IN  /\ Cutoff # None /\ e.timestamp = Cutoff[1] =>
                          \E i \in 1..Len(entries["ui"]) :
                              entries["ui"][i].timestamp = e.timestamp
                   /\ Cutoff = None =>
                          \E i \in 1..Len(entries["ui"]) :
                              /\ entries["ui"][i].uuid = e.uuid
                              /\ e.uuid = "" =>
                                     entries["ui"][i].timestamp = e.timestamp

\* with a cutoff of one day, a file holds a record one millisecond older
\* than the cutoff and after it a younger record with the same id; the
\* younger record and a record at the very cutoff have been returned
AgeFilterBeforeDedup_witness ==
    /\ ReadDone
    /\ max_age_days = Some(1)
    /\ files[1].readable
    /\ files[1].lines = <<LineStale, LineOld, LineCutoff>>
    /\ Len(entries["ui"]) = 2
    /\ entries["ui"][1].timestamp = Cutoff[1]
    /\ entries["ui"][2].uuid = "u1"

\* the places of the tree whose record has an empty id and is not older
\* than the cutoff
EmptyIdPlaces ==
    {x \in Records(files) :
        /\ parse_line(files[x[1]].lines[x[2]], "")[1].uuid = ""
        /\ ~Aged(files[x[1]].lines[x[2]])}

\* C19: every record with an empty unique id that passes the age cutoff is
\* in the output of read_entries, so n such records, identical or not, are
\* n records of the output and n messages of the stats computed over it.
EmptyIdsAreKept ==
    /\ ReadDone =>
           Cardinality({i \in 1..Len(entries["ui"]) : entries["ui"][i].uuid = ""})
               = Cardinality(EmptyIdPlaces)
    /\ ViewsDone =>
           /\ stats["ui"][1].total_messages_count = Len(entries["ui"])
           /\ stats["ui"][1].total_messages_count >= Cardinality(EmptyIdPlaces)

\* three identical records with an empty id have been read from one file
\* and counted as three messages
EmptyIdsAreKept_witness ==
    /\ ViewsDone
    /\ files[2].lines = <<LineTomorrow, LineTomorrow, LineTomorrow>>
    /\ Len(entries["ui"]) = 3
    /\ entries["ui"][1] = entries["ui"][2]
    /\ entries["ui"][1].uuid = ""
    /\ stats["ui"][1].total_messages_count = 3

\* how many times x occurs in the sequence s
Occurrences(s, x) == Cardinality({i \in 1..Len(s) : s[i] = x})

\* the records the loops of read_entries kept, in the order they were read
KeptInScanOrder == scan_entries(files, registry, max_age_days, now).entries

\* C20: the sequence read_entries returns is in non-decreasing order of
\* timestamp and is a permutation of the records its loops kept, whatever
\* the order of the files and of the lines in them.
SortedPermutationOfKept ==
    ReadDone =>
        LET es == entries["ui"]
        IN  /\ \A i, j \in 1..Len(es) :
                   i < j => es[i].timestamp <= es[j].timestamp
            /\ Len(es) = Len(KeptInScanOrder)
            /\ \A i \in 1..Len(es) :
                   Occurrences(es, es[i]) = Occurrences(KeptInScanOrder, es[i])

\* three records read newest first, from the newer file first, have been
\* returned oldest first
SortedPermutationOfKept_witness ==
    /\ ReadDone
    /\ Len(entries["ui"]) = 3
    /\ \A i \in 1..3 : entries["ui"][i] = KeptInScanOrder[4 - i]
    /\ entries["ui"][1].timestamp < entries["ui"][2].timestamp
    /\ entries["ui"][2].timestamp < entries["ui"][3].timestamp
    /\ entries["ui"][1].project # entries["ui"][3].project
----------------------------------------------------------------------------
(* The order of the chart's slices (SpecRead) *)

\* a slice is non-increasing by token count
TokensDescend(slice) ==
    \A i, j \in 1..Len(slice) : i < j => slice[i].tokens >= slice[j].tokens

\* C21: in the ChartData of get_chart_data, by_model and by_project are
\* non-increasing by token count, daily is strictly increasing by date string
\* (so that each date appears once), and hourly is strictly increasing by
\* hour, each hour in 0..23 (so that each hour appears at most once).
ChartSlicesAreOrdered ==
    chart # None =>
        LET c == chart[1]
        IN  /\ TokensDescend(c.by_model)
            /\ TokensDescend(c.by_project)
            /\ \A i, j \in 1..Len(c.daily) :
                   i < j => StrLess(c.daily[i].date, c.daily[j].date)
            /\ \A i \in 1..Len(c.hourly) : c.hourly[i].hour \in 0..23
            /\ \A i, j \in 1..Len(c.hourly) :
                   i < j => c.hourly[i].hour < c.hourly[j].hour

\* a chart of two models and two projects of different token counts, of two
\* days of different months and of two hours
ChartSlicesAreOrdered_witness ==
    /\ chart # None
    /\ Len(chart[1].by_model) >= 2
    /\ chart[1].by_model[1].tokens > chart[1].by_model[2].tokens
    /\ Len(chart[1].by_project) >= 2
    /\ chart[1].by_project[1].tokens > chart[1].by_project[2].tokens
    /\ Len(chart[1].daily) >= 2
    /\ chart[1].daily[1].date[7] # chart[1].daily[2].date[7]
    /\ Len(chart[1].hourly) >= 2

----------------------------------------------------------------------------
(* get_chart_data beside the stats cache (SpecChart) *)

\* every ChartData get_chart_data can build from the logs alone
Charts ==
    UNION {chart_data(read_entries(tree, RegistryMap, Some(d), t)) :
              tree \in UNION {TreesAfter(n) : n \in 0..MaxAppends},
              d \in ChartDays, t \in ClockValues}

\* caller t is inside get_chart_data before or after the step
InChartCall(t) ==
    \/ pc[t] \in {"chart_read", "chart_build"}
    \/ pc'[t] \in {"chart_read", "chart_build"}

\* C22: no step of a get_chart_data call changes the cached stats, the
\* last-refresh time or their locks; what the call returns is a chart of the
\* logs alone, whatever the cache holds; and no step of get_stats or
\* refresh_stats (no step that changes a caller's position, the cache or the
\* value returned) changes the log files.
ChartLeavesCacheAlone ==
    /\ [][pc'["ui"] # pc["ui"] /\ InChartCall("ui") => UNCHANGED shared]_vars
    /\ [](Returned("get_chart_data") => ret[1].value \in Charts)
    /\ [][pc' # pc \/ shared' # shared \/ ret' # ret => files' = files]_vars

\* a get_chart_data call has returned, having run beside a call of the tray,
\* while stats are cached and the logs have grown
ChartLeavesCacheAlone_witness ==
    /\ Returned("get_chart_data")
    /\ ~ret[1].solo
    /\ cached_stats # None
    /\ last_refresh # None
    /\ appended > 0
    /\ Len(ret[1].value.by_model) > 0

----------------------------------------------------------------------------
(* Project identifiers (SpecProject) *)

\* the log file the entry was read from: the one holding its unique id
SourceOf(entry) ==
    files[CHOOSE i \in 1..Len(files) :
              \E k \in 1..Len(files[i].lines) :
                  files[i].lines[k].raw.uuid = Some(entry.uuid)]

\* the paths the registry document registers
Registered(doc) == {doc.projects[k] : k \in 1..Len(doc.projects)}

\* C23: whatever registry document the reader was built from, every entry
\* read from a log file whose folder is named encode(p) for a registered
\* path p has p as its project, and every entry read from a folder that is
\* the encoding of no registered path (none is registered when the document
\* is missing or malformed) has the folder name as its project.
FolderNameIsReversed ==
    AggRead =>
        \A doc \in RegistryDocs :
            registry = build_project_path_map(doc) =>
                \A i \in 1..Len(entries["ui"]) :
                    LET e == entries["ui"][i]
                        folder == SourceOf(e).folder
                    IN  /\ \A p \in Registered(doc) :
                               folder = encode_path_to_folder(p) => e.project = p
                        /\ (\A p \in Registered(doc) :
                                folder # encode_path_to_folder(p))
                               => e.project = folder

----------------------------------------------------------------------------
(* No log files (SpecEmpty) *)

\* the AnalyticsStats of no record at all, computed at some instant
ZeroStats(value) ==
    /\ value.last_updated # None
    /\ [value EXCEPT !.last_updated = None] = DefaultStats

\* C24: over an empty, missing or unreadable log root every read finds no
\* entry; get_stats and refresh_stats return (and cache) stats whose numbers
\* are all zero and whose per-model and per-project maps are empty, and
\* get_chart_data returns four empty slices.
EmptyRootGivesZeros ==
    /\ \A t \in Callers :
           pc[t] \in {"calculate", "chart_build"} => entries[t] = <<>>
    /\ Returned("get_stats") \/ Returned("refresh_stats")
           => ZeroStats(ret[1].value)
    /\ cached_stats # None /\ cache_lock.writer = None
           => ZeroStats(cached_stats[1])
    /\ Returned("get_chart_data")
           => ret[1].value = [daily |-> <<>>, hourly |-> <<>>,
                              by_model |-> <<>>, by_project |-> <<>>]

\* get_chart_data has returned after a stats call left its result in the
\* cache
EmptyRootGivesZeros_witness ==
    /\ Returned("get_chart_data")
    /\ cached_stats # None
    /\ cache_lock.writer = None
    /\ last_refresh # None

----------------------------------------------------------------------------
(* The burn-rate divisor along the pass (SpecAgg) *)

\* the entries in every order
Reordered(es) == {[i \in 1..Len(es) |-> es[q[i]]] : q \in Perms(1..Len(es))}

\* the places of s, among its first k, that lie in the burn window
WindowUpTo(s, k) ==
    {i \in 1..k : now - s[i].timestamp <= BurnMinutes * MsPerMinute}

\* C25: in whatever order calculate_stats is given the entries, the divisor
\* is 0 until the first entry of the burn window, is set by that entry to
\* the whole minutes from it to `now`, at least 1 (so to 1 by an entry dated
\* after `now`), and stays so after every later entry; the rates of the
\* pass are the window sums over that divisor.
FirstWindowRecordSetsDivisor ==
    AggDone =>
        /\ \A s \in Reordered(entries["ui"]) : \A k \in 0..Len(s) :
               LET minutes == PassEnd(SubSeq(s, 1, k), now).burn_window_minutes
                   first == Smallest(WindowUpTo(s, k))
               IN  IF WindowUpTo(s, k) = {} THEN minutes = 0
                   ELSE /\ minutes = MinutesAgo(s[first].timestamp)
                        /\ s[first].timestamp > now => minutes = 1
        /\ InWindow # {} =>
               LET es == entries["ui"]
                   st == stats["ui"][1]
                   divisor == MinutesAgo(es[Smallest(InWindow)].timestamp)
               IN  st.tokens_per_minute.num * divisor
                       = (FieldSum(es, "input_tokens", InWindow)
                          + FieldSum(es, "output_tokens", InWindow))
                         * st.tokens_per_minute.den

\* a pass over a record of the window dated after `now` and a record of the
\* window several minutes old
FirstWindowRecordSetsDivisor_witness ==
    /\ AggDone
    /\ \E i, j \in InWindow :
          /\ entries["ui"][i].timestamp > now
          /\ MinutesAgo(entries["ui"][j].timestamp) > 1
    /\ stats["ui"][1].tokens_per_minute.num > 0

----------------------------------------------------------------------------
(* Session blocks (SpecAgg) *)

\* the 5-hour UTC block an instant falls in: its day and hour / 5
BlockOf(timestamp) == <<DayOf(timestamp), Hour(timestamp) \div BlockHours>>

\* the places of the entries classified as today: not before the midnight
\* that starts the day of `now`
TodayPlaces ==
    {i \in 1..Len(entries["ui"]) :
        entries["ui"][i].timestamp >= DayOf(now) * MsPerDay}

\* the places of the entries in the block of `now`
CurrentPlaces ==
    {i \in 1..Len(entries["ui"]) :
        BlockOf(entries["ui"][i].timestamp) = BlockOf(now)}

\* C26: after calculate_stats, total_session_count is the number of distinct
\* 5-hour blocks among all records, today_session_count the number of
\* distinct blocks among the records classified as today, which is never
\* more; current_session_tokens and current_session_cost are the sums over
\* exactly the records in the block of the `now` of the pass.
SessionCountsAndCurrentBlock ==
    AggDone =>
        LET es == entries["ui"]
            st == stats["ui"][1]
        IN  /\ st.total_session_count
                   = Cardinality({BlockOf(es[i].timestamp) : i \in 1..Len(es)})
            /\ st.today_session_count
                   = Cardinality({BlockOf(es[i].timestamp) : i \in TodayPlaces})
            /\ st.today_session_count <= st.total_session_count
            /\ st.current_session_tokens
                   = FieldSum(es, "input_tokens", CurrentPlaces)
                     + FieldSum(es, "output_tokens", CurrentPlaces)
            /\ st.current_session_cost = CostSum(es, CurrentPlaces)

\* a pass over records of two blocks classified as today, one of them the block of
\* `now`, and a record of yesterday
SessionCountsAndCurrentBlock_witness ==
    /\ AggDone
    /\ stats["ui"][1].total_session_count = 3
    /\ stats["ui"][1].today_session_count = 2
    /\ CurrentPlaces # {}
    /\ CurrentPlaces # TodayPlaces
    /\ stats["ui"][1].current_session_cost > 0

----------------------------------------------------------------------------
(* The latest response (SpecReply) *)

\* the text an assistant line shows: its text blocks joined by spaces and
\* trimmed, when the line can be read and parsed and that text is not blank
ShownText(line) ==
    IF /\ line.io_ok
       /\ ~line.blank
       /\ line.json = "entry"
       /\ line.raw.entry_type = Some("assistant")
       /\ line.raw.message # None
       /\ line.raw.message[1].role = Some("assistant")
       /\ line.raw.message[1].content # None
    THEN LET cs == trim(join(text_parts(line.raw.message[1].content[1]), <<" ">>))
         IN  IF cs = <<>> THEN None ELSE Some(cs)
    ELSE None

\* the places of the lines of a file that show a text
Showing(file) ==
    IF ~file.readable THEN {}
    ELSE {i \in 1..Len(file.lines) : ShownText(file.lines[i]) # None}

\* the 5 most recently modified files, newest first
Latest == take(find_jsonl_files(files), LatestFiles)

\* the text to be excerpted: that of the last showing line of the first of
\* the latest files that has one
LatestText ==
    LET with == {f \in 1..Len(Latest) : Showing(Latest[f]) # {}}
    IN  IF with = {} THEN None
        ELSE LET file == Latest[Smallest(with)]
             IN  ShownText(file.lines[Largest(Showing(file))])

\* C27: get_latest_response(max_chars) returns None when none of the 5 most
\* recently modified files has an assistant line with non-blank text;
\* otherwise it returns the text of the last such line of the first such
\* file, whole when it has at most max_chars characters, else its first
\* max_chars characters followed by "...".
LatestResponseIsExcerpt ==
    latest_response # None =>
        latest_response[1] =
            IF LatestText = None THEN Gives(None)
            ELSE IF Len(LatestText[1]) > max_chars
            THEN Gives(Some(SubSeq(LatestText[1], 1, max_chars)
                                \o <<".", ".", ".">>))
            ELSE Gives(LatestText)

----------------------------------------------------------------------------
(* Concurrent refreshes (Spec) *)

\* C28: when no call is under way and the call that returned last was a
\* refresh (a refresh_stats, or a get_stats that recomputed), which then is
\* the refresh that wrote last_refresh last, the cached stats are the stats
\* of that same refresh: the cache never pairs the stats of one refresh
\* with the time of another.
StoresOfOneRefresh ==
    Idle /\ ret # None /\ ret[1].via = "computed" =>
        /\ last_refresh = Some(ret[1].at)
        /\ cached_stats = Some(ret[1].value)

\* C29: no store lowers the last_updated of the cached stats: when a
\* refresh takes the write lock of a cache that holds stats, the stats it
\* stores are of a pass that started no earlier than the pass of the stats
\* it replaces.
CachedStatsNeverOlder ==
    [][cached_stats # None /\ cache_lock.writer = None
       /\ cache_lock'.writer # None
          => stats[cache_lock'.writer[1]][1].last_updated[1]
                 >= cached_stats[1].last_updated[1]]_vars

----------------------------------------------------------------------------
(* Conservation in one pass (SpecAgg) *)

RECURSIVE SumOver(_, _, _)
\* the sum of a field over the values of a map, for the given keys
SumOver(map, field, keys) ==
    IF keys = {} THEN 0
    ELSE LET k == CHOOSE x \in keys : TRUE
         IN  map[k][field] + SumOver(map, field, keys \ {k})

\* the sum of a field over all values of a map
MapSum(map, field) == SumOver(map, field, DOMAIN map)

====
